---- MODULE Spec2Model ----
(***************************************************************************)
(* Model of the EWTS (Extended Wylie) <-> Tibetan Unicode transliterator   *)
(* and validator of python-wylie-transliteration.                          *)
(*                                                                         *)
(* EWTS text is a TLA+ string; Python's 0-based positions are kept.        *)
(* Unicode text is a sequence of code points (naturals): a Tibetan code    *)
(* point is written \hXXXX, an ASCII character that passes through is its  *)
(* ordinal (Ord).  Python's None and '' are both the empty string "".      *)
(* A dict is the sequence of its (key, value) items in insertion order, a  *)
(* value being the sequence of code points of the mapped string.           *)
(***************************************************************************)
EXTENDS Integers, Sequences, FiniteSets, TLC

VARIABLES
  mode,        \* "wylie": a wylie_to_unicode/validate call, "tibetan": a unicode_to_wylie call
  wylie,       \* the EWTS argument
  tsheg,       \* the spaces_as_tsheg argument
  tibetan,     \* the Unicode text handed to unicode_to_wylie
  pc,          \* position of the caller
  normalized,  \* transliterate: the case-normalized text
  i,           \* transliterate: scan position (0-based)
  result,      \* transliterate: code points emitted so far
  units,       \* transliterate: one entry per emitted unit (kind, start, length)
  last_was_syllable, \* transliterate: the flag of the scan loop
  back,        \* the string returned by unicode_to_wylie
  report,      \* the ValidationResult returned by validate
  mappings     \* TibetanToWylieTransliterator.mappings: the service's reverse index

vars == <<mode, wylie, tsheg, tibetan, pc, normalized, i, result, units,
          last_was_syllable, back, report, mappings>>

----------------------------------------------------------------------------
(* Strings and characters                                                  *)

UPPER == "ABCDEFGHIJKLMNOPQRSTUVWXYZ"
LOWER == "abcdefghijklmnopqrstuvwxyz"
DIGITS == "0123456789"
\* printable ASCII U+0020..U+005F and U+0061..U+007E, in code point order
ASCII_LOW == " !\"#$%&'()*+,-./0123456789:;<=>?@ABCDEFGHIJKLMNOPQRSTUVWXYZ[\\]^_"
ASCII_HIGH == "abcdefghijklmnopqrstuvwxyz{|}~"

\* text[p] (0-based); "" when p is out of range
At(text, p) == IF p >= 0 /\ p < Len(text) THEN SubSeq(text, p + 1, p + 1) ELSE ""
\* text[p:]
From(text, p) == IF p >= Len(text) THEN "" ELSE SubSeq(text, p + 1, Len(text))
\* text[p:q]
Slice(text, p, q) ==
  IF p >= Len(text) \/ q <= p THEN ""
  ELSE SubSeq(text, p + 1, IF q > Len(text) THEN Len(text) ELSE q)
StartsWith(text, prefix) ==
  Len(prefix) <= Len(text) /\ SubSeq(text, 1, Len(prefix)) = prefix
CharsOf(s) == {SubSeq(s, k, k) : k \in 1..Len(s)}
IsUpper(c) == c \in CharsOf(UPPER)
IsLower(c) == c \in CharsOf(LOWER)
IsDigit(c) == c \in CharsOf(DIGITS)
\* str.lower()
LowerOf == [c \in CharsOf(UPPER) |-> LET k == CHOOSE k \in 1..26 : SubSeq(UPPER, k, k) = c
                                     IN SubSeq(LOWER, k, k)]
RECURSIVE Lower(_)
Lower(s) ==
  IF s = "" THEN ""
  ELSE (IF SubSeq(s, 1, 1) \in DOMAIN LowerOf THEN LowerOf[SubSeq(s, 1, 1)] ELSE SubSeq(s, 1, 1))
       \o Lower(From(s, 1))

\* ord() and chr() on printable ASCII
OrdOf ==
  [c \in CharsOf(ASCII_LOW) \cup CharsOf(ASCII_HIGH) |->
     IF c \in CharsOf(ASCII_LOW)
     THEN 31 + (CHOOSE k \in 1..Len(ASCII_LOW) : SubSeq(ASCII_LOW, k, k) = c)
     ELSE 96 + (CHOOSE k \in 1..Len(ASCII_HIGH) : SubSeq(ASCII_HIGH, k, k) = c)]
Chr(n) == IF n <= 95 THEN SubSeq(ASCII_LOW, n - 31, n - 31)
          ELSE SubSeq(ASCII_HIGH, n - 96, n - 96)

Min(S) == CHOOSE x \in S : \A y \in S : x <= y
Max(S) == CHOOSE x \in S : \A y \in S : x >= y

----------------------------------------------------------------------------
(* Mapping tables (TibetanAlphabet, SyllableRules)                         *)

CONSONANTS ==
  << <<"k", <<\h0F40>>>>, <<"kh", <<\h0F41>>>>, <<"g", <<\h0F42>>>>,
     <<"gh", <<\h0F43>>>>, <<"ng", <<\h0F44>>>>, <<"c", <<\h0F45>>>>,
     <<"ch", <<\h0F46>>>>, <<"j", <<\h0F47>>>>, <<"ny", <<\h0F49>>>>,
     <<"t", <<\h0F4F>>>>, <<"th", <<\h0F50>>>>, <<"d", <<\h0F51>>>>,
     <<"dh", <<\h0F52>>>>, <<"n", <<\h0F53>>>>, <<"p", <<\h0F54>>>>,
     <<"ph", <<\h0F55>>>>, <<"b", <<\h0F56>>>>, <<"bh", <<\h0F57>>>>,
     <<"m", <<\h0F58>>>>, <<"ts", <<\h0F59>>>>, <<"tsh", <<\h0F5A>>>>,
     <<"dz", <<\h0F5B>>>>, <<"dzh", <<\h0F5C>>>>, <<"w", <<\h0F5D>>>>,
     <<"zh", <<\h0F5E>>>>, <<"z", <<\h0F5F>>>>, <<"'", <<\h0F60>>>>,
     <<"y", <<\h0F61>>>>, <<"r", <<\h0F62>>>>, <<"l", <<\h0F63>>>>,
     <<"sh", <<\h0F64>>>>, <<"ss", <<\h0F65>>>>, <<"s", <<\h0F66>>>>,
     <<"h", <<\h0F67>>>>, <<"a", <<\h0F68>>>>, <<"tt", <<\h0F4A>>>>,
     <<"tth", <<\h0F4B>>>>, <<"dd", <<\h0F4C>>>>, <<"ddh", <<\h0F4D>>>>,
     <<"nn", <<\h0F4E>>>>, <<"kss", <<\h0F69>>>>, <<"Ta", <<\h0F4A>>>>,
     <<"Tha", <<\h0F4B>>>>, <<"Da", <<\h0F4C>>>>, <<"Dha", <<\h0F4D>>>>,
     <<"Na", <<\h0F4E>>>>, <<"Sha", <<\h0F65>>>> >>

VOWELS ==
  << <<"a", <<>>>>, <<"i", <<\h0F72>>>>, <<"u", <<\h0F74>>>>,
     <<"e", <<\h0F7A>>>>, <<"o", <<\h0F7C>>>>, <<"A", <<\h0F71>>>>,
     <<"U", <<\h0F71, \h0F74>>>>, <<"-i", <<\h0F80>>>>, <<"-I", <<\h0F81>>>> >>

SUBSCRIPTS ==
  << <<"r", <<\h0FB2>>>>, <<"l", <<\h0FB3>>>>, <<"y", <<\h0FB1>>>>,
     <<"w", <<\h0FAD>>>>, <<"v", <<\h0FAD>>>>, <<"m", <<\h0FA8>>>> >>

SUBJOINED ==
  << <<"k", <<\h0F90>>>>, <<"kh", <<\h0F91>>>>, <<"g", <<\h0F92>>>>,
     <<"gh", <<\h0F93>>>>, <<"ng", <<\h0F94>>>>, <<"c", <<\h0F95>>>>,
     <<"ch", <<\h0F96>>>>, <<"j", <<\h0F97>>>>, <<"ny", <<\h0F99>>>>,
     <<"t", <<\h0F9F>>>>, <<"th", <<\h0FA0>>>>, <<"d", <<\h0FA1>>>>,
     <<"dh", <<\h0FA2>>>>, <<"n", <<\h0FA3>>>>, <<"p", <<\h0FA4>>>>,
     <<"ph", <<\h0FA5>>>>, <<"b", <<\h0FA6>>>>, <<"bh", <<\h0FA7>>>>,
     <<"m", <<\h0FA8>>>>, <<"ts", <<\h0FA9>>>>, <<"tsh", <<\h0FAA>>>>,
     <<"dz", <<\h0FAB>>>>, <<"dzh", <<\h0FAC>>>>, <<"w", <<\h0FAD>>>>,
     <<"zh", <<\h0FAE>>>>, <<"z", <<\h0FAF>>>>, <<"y", <<\h0FB1>>>>,
     <<"r", <<\h0FB2>>>>, <<"l", <<\h0FB3>>>>, <<"sh", <<\h0FB4>>>>,
     <<"ss", <<\h0FB5>>>>, <<"s", <<\h0FB6>>>>, <<"h", <<\h0FB7>>>>,
     <<"tt", <<\h0F9A>>>>, <<"tth", <<\h0F9B>>>>, <<"dd", <<\h0F9C>>>>,
     <<"ddh", <<\h0F9D>>>>, <<"nn", <<\h0F9E>>>>, <<"kss", <<\h0FB9>>>> >>

PUNCTUATION ==
  << <<" ", <<\h0F0B>>>>, <<"*", <<\h0F0C>>>>, <<"/", <<\h0F0D>>>>,
     <<"//", <<\h0F0E>>>>, <<";", <<\h0F0F>>>>, <<"|", <<\h0F0D>>>>,
     <<"||", <<\h0F0E>>>>, <<"!", <<\h0F08>>>>, <<":", <<\h0F0E>>>>,
     <<"_", <<\h0F35>>>> >>

NUMERALS ==
  << <<"0", <<\h0F20>>>>, <<"1", <<\h0F21>>>>, <<"2", <<\h0F22>>>>,
     <<"3", <<\h0F23>>>>, <<"4", <<\h0F24>>>>, <<"5", <<\h0F25>>>>,
     <<"6", <<\h0F26>>>>, <<"7", <<\h0F27>>>>, <<"8", <<\h0F28>>>>,
     <<"9", <<\h0F29>>>> >>

SANSKRIT_MARKS ==
  << <<"M", <<\h0F7E>>>>, <<"H", <<\h0F7F>>>>, <<"~M", <<\h0F7E>>>>,
     <<"~H", <<\h0F7F>>>> >>

SANSKRIT_RETROFLEX ==
  << <<"Ta", <<\h0F4A>>>>, <<"Tha", <<\h0F4B>>>>, <<"Da", <<\h0F4C>>>>,
     <<"Dha", <<\h0F4D>>>>, <<"Na", <<\h0F4E>>>>, <<"Sha", <<\h0F65>>>> >>

ANUSVARA_AFTER_U == \h0F83
TSHEG == \h0F0B

PRESCRIPTS == <<"g", "d", "b", "m", "'">>
SUPERSCRIPTS == <<"r", "l", "s">>
POSTSCRIPTS == <<"g", "ng", "d", "n", "b", "m", "r", "l", "s", "'">>

\* dict.keys(), key in dict, dict.get(key, '')
SetOfKeys(items) == {items[k][1] : k \in 1..Len(items)}
Keys(items) == [k \in 1..Len(items) |-> items[k][1]]
HasKey(items, key) == \E k \in 1..Len(items) : items[k][1] = key
Get(items, key) ==
  IF HasKey(items, key)
  THEN items[CHOOSE k \in 1..Len(items) : items[k][1] = key][2]
  ELSE <<>>

\* sorted(keys, key=len, reverse=True): a stable sort, so keys of one length
\* keep their order
ByLenDesc(keys) ==
  SelectSeq(keys, LAMBDA k : Len(k) = 4) \o SelectSeq(keys, LAMBDA k : Len(k) = 3)
  \o SelectSeq(keys, LAMBDA k : Len(k) = 2) \o SelectSeq(keys, LAMBDA k : Len(k) = 1)

\* the first element of seq that satisfies Test, "" when there is none
FirstOf(seq, Test(_)) ==
  IF \A k \in 1..Len(seq) : ~Test(seq[k]) THEN ""
  ELSE seq[Min({k \in 1..Len(seq) : Test(seq[k])})]

CONSONANT_KEYS == ByLenDesc(Keys(CONSONANTS))
VOWEL_KEYS == ByLenDesc(Keys(VOWELS))
SUBSCRIPT_KEYS == ByLenDesc(Keys(SUBSCRIPTS))
SUBJOINED_KEYS == ByLenDesc(Keys(SUBJOINED))

----------------------------------------------------------------------------
(* CaseNormalizer                                                          *)

SANSKRIT_RETROFLEX_3 == <<"Tha", "Dha", "Sha">>
SANSKRIT_RETROFLEX_2 == <<"Ta", "Da", "Na">>
NORMALIZER_MARKS == {"M", "H"}
\* terminators without the space
TERMINATOR_CHARS_no_space == {"/", "|", "\n", "\t", "M"}
TERMINATOR_CHARS == {" ", "/", "|", "\n", "\t", "M"}

\* the multi-character consonant found at text[p:], tried at lengths 4, 3, 2;
\* a segment cut short by the end of the text is the next shorter segment
MultiCharAt(text, p) ==
  FirstOf(<<Lower(Slice(text, p, p + 4)), Lower(Slice(text, p, p + 3)),
            Lower(Slice(text, p, p + 2))>>,
          LAMBDA segment : Len(segment) >= 2 /\ HasKey(CONSONANTS, segment))

\* the branches of the loop body of normalize, in order: c is text[p], retro3
\* and retro2 the retroflex forms found at p, multi the multi-character
\* consonant found at p
NormalizeBranch(text, p, c, retro3, retro2, multi) ==
  IF retro3 # "" THEN [out |-> retro3, adv |-> 3]
  ELSE IF retro2 # "" THEN [out |-> retro2, adv |-> 2]
  ELSE IF c \in NORMALIZER_MARKS
          /\ (p + 1 >= Len(text) \/ At(text, p + 1) \in TERMINATOR_CHARS)
    THEN [out |-> c, adv |-> 1]
  ELSE IF c = "A"
    THEN [out |-> IF p > 0 /\ IsLower(At(text, p - 1)) THEN "A" ELSE "a", adv |-> 1]
  ELSE IF multi # "" THEN [out |-> multi, adv |-> Len(multi)]
  ELSE IF IsUpper(c)
    THEN IF c \in {"N", "T", "D", "S"} /\ p + 1 < Len(text)
            /\ IsLower(At(text, p + 1)) /\ At(text, p + 1) \notin {"h", "a"}
         THEN [out |-> c \o "a", adv |-> 1]
         ELSE IF HasKey(CONSONANTS, Lower(c))
              THEN [out |-> Lower(c), adv |-> 1]
              ELSE [out |-> c, adv |-> 1]
  ELSE [out |-> c, adv |-> 1]

\* one iteration of the loop of normalize at position p: the text appended
\* and the number of characters consumed
NormalizeStep(text, p) ==
  NormalizeBranch(text, p, At(text, p),
                  FirstOf(SANSKRIT_RETROFLEX_3, LAMBDA r : StartsWith(From(text, p), r)),
                  FirstOf(SANSKRIT_RETROFLEX_2, LAMBDA r : StartsWith(From(text, p), r)),
                  MultiCharAt(text, p))

RECURSIVE NormalizeFrom(_, _)
NormalizeFrom(text, p) ==
  IF p >= Len(text) THEN ""
  ELSE NormalizeStep(text, p).out
       \o NormalizeFrom(text, p + NormalizeStep(text, p).adv)

normalize(text) == NormalizeFrom(text, 0)

----------------------------------------------------------------------------
(* SyllableComponents and MultiStrategySyllableParser                      *)

SyllableComponents(root, prescript, superscript, subscript, vowel, postscript1, postscript2) ==
  [root |-> root, prescript |-> prescript, superscript |-> superscript,
   subscript |-> subscript, vowel |-> vowel,
   postscript1 |-> postscript1, postscript2 |-> postscript2]

\* "no components": what a strategy returns as (None, 0)
NoComponents == SyllableComponents("", "", "", "", "", "", "")
NoParse == [ok |-> FALSE, components |-> NoComponents, length |-> 0]

_could_be_multichar_consonant(text) ==
  \E cons \in SetOfKeys(CONSONANTS) : Len(cons) > 2 /\ StartsWith(Lower(text), cons)

_has_valid_root_ahead(text) ==
  \E root \in SetOfKeys(CONSONANTS) : root # "a" /\ StartsWith(Lower(text), root)

_match_prescript(text) ==
  FirstOf(ByLenDesc(PRESCRIPTS),
          LAMBDA pre : /\ StartsWith(Lower(text), pre)
                       /\ ~_could_be_multichar_consonant(From(text, Len(pre)))
                       /\ _has_valid_root_ahead(From(text, Len(pre))))

_match_superscript(text) ==
  FirstOf(ByLenDesc(SUPERSCRIPTS),
          LAMBDA sup : /\ StartsWith(Lower(text), sup)
                       /\ ~_could_be_multichar_consonant(From(text, Len(sup)))
                       /\ _has_valid_root_ahead(From(text, Len(sup))))

\* the root and the number of characters it consumed: exact is the
\* case-sensitive match, folded the case-insensitive one
RootOf(exact, folded) ==
  IF exact # "" THEN [root |-> exact, len |-> Len(exact)]
  ELSE IF folded # "" THEN [root |-> Lower(folded), len |-> Len(folded)]
  ELSE [root |-> "", len |-> 0]
_match_root(text) ==
  RootOf(FirstOf(CONSONANT_KEYS, LAMBDA root : StartsWith(text, root)),
         FirstOf(CONSONANT_KEYS, LAMBDA root : StartsWith(Lower(text), Lower(root))))

\* '+' notation: cons is the consonant after the first '+'
ExplicitSecond(cons, pos, cons2) ==
  IF cons2 # "" THEN [sub |-> cons \o "+" \o cons2, len |-> pos + Len(cons2)]
  ELSE [sub |-> cons, len |-> pos]
ExplicitSubscript(text, cons) ==
  IF cons = "" THEN [sub |-> "", len |-> 0]
  ELSE IF 1 + Len(cons) < Len(text) /\ At(text, 1 + Len(cons)) = "+"
  THEN ExplicitSecond(cons, 2 + Len(cons),
                      FirstOf(SUBJOINED_KEYS,
                              LAMBDA c : StartsWith(From(text, 2 + Len(cons)), c)))
  ELSE [sub |-> cons, len |-> 1 + Len(cons)]

\* implicit subscripts: sub is the first one matched
ImplicitSecond(sub, sub2) ==
  IF sub2 # "" THEN [sub |-> sub \o "+" \o sub2, len |-> Len(sub) + Len(sub2)]
  ELSE [sub |-> sub, len |-> Len(sub)]
ImplicitSubscript(text, sub) ==
  IF sub = "" THEN [sub |-> "", len |-> 0]
  ELSE ImplicitSecond(sub, FirstOf(SUBSCRIPT_KEYS,
                                   LAMBDA c : StartsWith(Lower(From(text, Len(sub))), c)))

\* the subscript ('+'-joined when double) and the number of characters consumed
_match_subscript(text) ==
  IF StartsWith(text, "+")
  THEN ExplicitSubscript(text, FirstOf(SUBJOINED_KEYS, LAMBDA c : StartsWith(From(text, 1), c)))
  ELSE ImplicitSubscript(text, FirstOf(SUBSCRIPT_KEYS, LAMBDA c : StartsWith(Lower(text), c)))

_match_vowel(text) == FirstOf(VOWEL_KEYS, LAMBDA v : StartsWith(text, v))

\* a postscript matcher without the rule for an apostrophe before a vowel
_match_postscript_greedy(text) ==
  IF text # "" /\ IsUpper(At(text, 0)) THEN ""
  ELSE FirstOf(ByLenDesc(POSTSCRIPTS), LAMBDA q : StartsWith(Lower(text), q))
_match_postscript(text) ==
  IF text # "" /\ IsUpper(At(text, 0)) THEN ""
  ELSE IF /\ FirstOf(ByLenDesc(POSTSCRIPTS), LAMBDA q : StartsWith(Lower(text), q)) = "'"
          /\ Len(text) > 1
          /\ At(text, 1) \in {"i", "u", "e", "o", "a", "A", "I", "U", "E", "O"}
  THEN ""
  ELSE FirstOf(ByLenDesc(POSTSCRIPTS), LAMBDA q : StartsWith(Lower(text), q))

\* the parser's rules object is SyllableRules, which has no
\* VALID_SUPERSCRIPT_COMBINATIONS attribute: hasattr() fails and every
\* combination is allowed
_is_valid_superscript_combination(superscript, root) == TRUE

STRATEGIES == <<"simple", "with_super", "with_pre", "full">>

\* the locals of _try_strategy: the components matched so far and pos
TryStart == [components |-> NoComponents, pos |-> 0]
\* slot := value; pos += n
Took(s, slot, value, n) ==
  [components |-> [s.components EXCEPT ![slot] = value], pos |-> s.pos + n]
\* slot := value; pos += len(value)
TookAll(s, slot, value) == Took(s, slot, value, Len(value))

TryPrescript(text, strategy, s) ==
  IF strategy \in {"with_pre", "full"}
  THEN TookAll(s, "prescript", _match_prescript(From(text, s.pos)))
  ELSE s

TrySuperscript(text, strategy, s) ==
  IF strategy \in {"with_super", "full"}
  THEN TookAll(s, "superscript", _match_superscript(From(text, s.pos)))
  ELSE s

TookSubscript(s, subm) == Took(s, "subscript", subm.sub, subm.len)
TrySubscript(text, s) == TookSubscript(s, _match_subscript(From(text, s.pos)))

\* the vowel after the root and subscript, 'a' when none is written
TookVowel(s, vowel) == Took(s, "vowel", IF vowel # "" THEN vowel ELSE "a", Len(vowel))
TryVowel(text, s) == TookVowel(s, _match_vowel(From(text, s.pos)))

TryPostscript1(text, s) == TookAll(s, "postscript1", _match_postscript(From(text, s.pos)))

TryPostscript2(text, s) ==
  IF s.components.postscript1 # ""
  THEN TookAll(s, "postscript2", _match_postscript(From(text, s.pos)))
  ELSE s

TryResult(s) == [ok |-> TRUE, components |-> s.components, length |-> s.pos]

\* from the root on, with no reading for a syllable that begins with a vowel
TryRootConsonantOnly(text, s, rootm, vowel) ==
  IF rootm.root = "" THEN NoParse
  ELSE TryResult(TryPostscript2(text, TryPostscript1(text, TryVowel(text,
         TrySubscript(text, Took(s, "root", rootm.root, rootm.len))))))
\* from the root on: rootm is _match_root and vowel is _match_vowel at s.pos
TryRoot(text, s, rootm, vowel) ==
  IF rootm.root = "" /\ ~(vowel # "" /\ vowel # "a") THEN NoParse
  ELSE IF s.components.superscript # ""
          /\ ~_is_valid_superscript_combination(s.components.superscript,
                                                IF rootm.root = "" THEN "a" ELSE rootm.root)
  THEN NoParse
  ELSE IF rootm.root = ""
  THEN TryResult(TryPostscript2(text, TryPostscript1(text,
         Took(Took(s, "root", "a", 0), "vowel", vowel, Len(vowel)))))
  ELSE TryResult(TryPostscript2(text, TryPostscript1(text, TryVowel(text,
         TrySubscript(text, Took(s, "root", rootm.root, rootm.len))))))

TryFromRoot(text, s) ==
  TryRoot(text, s, _match_root(From(text, s.pos)), _match_vowel(From(text, s.pos)))

_try_strategy(text, strategy) ==
  TryFromRoot(text, TrySuperscript(text, strategy, TryPrescript(text, strategy, TryStart)))

\* a later strategy replaces the best already when it is as long
BetterOrEqual(best, try) == IF try.ok /\ try.length >= best.length THEN try ELSE best
\* a later strategy replaces the best only when it is strictly longer
Better(best, try) == IF try.ok /\ try.length > best.length THEN try ELSE best

\* the best (components, length) over the first n strategies
RECURSIVE BestOfFirst(_, _)
BestOfFirst(text, n) ==
  IF n = 0 THEN NoParse
  ELSE Better(BestOfFirst(text, n - 1), _try_strategy(text, STRATEGIES[n]))

\* parse_syllable returns the components only; .ok FALSE stands for None
parse_syllable(text) ==
  IF text = "" THEN NoParse ELSE BestOfFirst(text, Len(STRATEGIES))

----------------------------------------------------------------------------
(* SyllableBuilder                                                         *)

\* str.split('+')
RECURSIVE SplitPlus(_)
SplitPlus(s) ==
  LET cut == {k \in 1..Len(s) : SubSeq(s, k, k) = "+"}
  IN IF cut = {} THEN <<s>>
     ELSE <<SubSeq(s, 1, Min(cut) - 1)>> \o SplitPlus(SubSeq(s, Min(cut) + 1, Len(s)))

RECURSIVE JoinSubscripts(_)
JoinSubscripts(subs) ==
  IF subs = <<>> THEN <<>> ELSE Get(SUBSCRIPTS, Head(subs)) \o JoinSubscripts(Tail(subs))

HasPlus(s) == \E k \in 1..Len(s) : SubSeq(s, k, k) = "+"

\* a builder that emits the vowel sign after the postscripts instead of
\* before them
build_syllable_vowel_last(components) ==
  (IF components.prescript # "" THEN Get(CONSONANTS, components.prescript) ELSE <<>>)
  \o (IF components.superscript # "" THEN Get(CONSONANTS, components.superscript) ELSE <<>>)
  \o (IF components.superscript # "" THEN Get(SUBJOINED, components.root)
      ELSE Get(CONSONANTS, components.root))
  \o (IF components.subscript # ""
      THEN IF HasPlus(components.subscript)
           THEN JoinSubscripts(SplitPlus(components.subscript))
           ELSE Get(SUBSCRIPTS, components.subscript)
      ELSE <<>>)
  \o (IF components.postscript1 # "" THEN Get(CONSONANTS, components.postscript1) ELSE <<>>)
  \o (IF components.postscript2 # "" THEN Get(CONSONANTS, components.postscript2) ELSE <<>>)
  \o (IF components.vowel # "" /\ components.vowel # "a"
      THEN Get(VOWELS, components.vowel) ELSE <<>>)

\* the code points of Syllable.unicode_text
build_syllable(components) ==
  (IF components.prescript # "" THEN Get(CONSONANTS, components.prescript) ELSE <<>>)
  \o (IF components.superscript # "" THEN Get(CONSONANTS, components.superscript) ELSE <<>>)
  \o (IF components.superscript # "" THEN Get(SUBJOINED, components.root)
      ELSE Get(CONSONANTS, components.root))
  \o (IF components.subscript # ""
      THEN IF HasPlus(components.subscript)
           THEN JoinSubscripts(SplitPlus(components.subscript))
           ELSE Get(SUBSCRIPTS, components.subscript)
      ELSE <<>>)
  \o (IF components.vowel # "" /\ components.vowel # "a"
      THEN Get(VOWELS, components.vowel) ELSE <<>>)
  \o (IF components.postscript1 # "" THEN Get(CONSONANTS, components.postscript1) ELSE <<>>)
  \o (IF components.postscript2 # "" THEN Get(CONSONANTS, components.postscript2) ELSE <<>>)

----------------------------------------------------------------------------
(* WylieToTibetanTransliterator                                            *)

NoMatch == [out |-> <<>>, len |-> 0]

\* 2-character forms before 1-character forms
_match_punctuation(text) ==
  IF Len(text) >= 2 /\ HasKey(PUNCTUATION, Slice(text, 0, 2))
  THEN [out |-> Get(PUNCTUATION, Slice(text, 0, 2)), len |-> 2]
  ELSE IF Len(text) >= 1 /\ HasKey(PUNCTUATION, Slice(text, 0, 1))
  THEN [out |-> Get(PUNCTUATION, Slice(text, 0, 1)), len |-> 1]
  ELSE NoMatch

\* previous_char is accepted and never read: M is always SANSKRIT_MARKS['M']
_match_sanskrit_mark(text, previous_char) ==
  IF Len(text) >= 2 /\ HasKey(SANSKRIT_MARKS, Slice(text, 0, 2))
  THEN [out |-> Get(SANSKRIT_MARKS, Slice(text, 0, 2)), len |-> 2]
  ELSE IF Len(text) >= 1 /\ HasKey(SANSKRIT_MARKS, Slice(text, 0, 1))
  THEN [out |-> Get(SANSKRIT_MARKS, Slice(text, 0, 1)), len |-> 1]
  ELSE NoMatch


\* the longest vowel other than 'a' and 'A' that stands alone at the start
StandaloneVowel(text) ==
  FirstOf(SelectSeq(VOWEL_KEYS, LAMBDA k : k # "a" /\ k # "A"),
          LAMBDA v : /\ StartsWith(text, v)
                     /\ \/ Len(v) >= Len(text)
                        \/ At(text, Len(v)) \in {" ", "/", "|", "\n", "\t"}
                        \/ IsUpper(At(text, Len(v))))
_match_standalone_vowel(text) ==
  IF StandaloneVowel(text) = "" THEN NoMatch
  ELSE [out |-> Get(CONSONANTS, "a") \o Get(VOWELS, StandaloneVowel(text)),
        len |-> Len(StandaloneVowel(text))]

RECURSIVE SumLen(_)
SumLen(parts) == IF parts = <<>> THEN 0 ELSE Len(Head(parts)) + SumLen(Tail(parts))

\* the length _match_syllable recomputes from the components
MatchedLen(text, components) ==
  LET is_vowel_initial == /\ components.root = "a"
                          /\ text # "" /\ At(text, 0) # "a" /\ At(text, 0) # "A"
                          /\ components.vowel # "" /\ components.vowel # "a"
      len1 == Len(components.prescript) + Len(components.superscript)
              + (IF is_vowel_initial THEN 0 ELSE Len(components.root))
      pos_after_root == Len(components.prescript) + Len(components.superscript)
                        + Len(components.root)
      parts == SplitPlus(components.subscript)
      len2 == IF components.subscript = "" THEN len1
              ELSE IF pos_after_root < Len(text) /\ At(text, pos_after_root) = "+"
                   THEN IF HasPlus(components.subscript)
                        THEN len1 + 1 + SumLen(parts) + (Len(parts) - 1)
                        ELSE len1 + 1 + Len(components.subscript)
                   ELSE IF HasPlus(components.subscript)
                        THEN len1 + SumLen(parts)
                        ELSE len1 + Len(components.subscript)
      len3 == IF /\ components.vowel # ""
                 /\ len2 + Len(components.vowel) <= Len(text)
                 /\ Slice(text, len2, len2 + Len(components.vowel)) = components.vowel
              THEN len2 + Len(components.vowel) ELSE len2
  IN len3 + Len(components.postscript1) + Len(components.postscript2)

SyllableOf(text, parse) ==
  IF ~parse.ok \/ parse.components.root = "" THEN NoMatch
  ELSE [out |-> build_syllable(parse.components),
        len |-> MatchedLen(text, parse.components)]
_match_syllable(text) == SyllableOf(text, parse_syllable(text))

\* result[-1] if result else ''
PrevChar(res) == IF res = <<>> THEN <<>> ELSE res[Len(res)]

\* a loop body that tries the standalone vowel whatever was emitted before
ScanBranchVowelAlways(c, spaces_as_tsheg, last, punct, mark, vowel, syllable) ==
  IF IsDigit(c)
  THEN [kind |-> "digit", out |-> IF HasKey(NUMERALS, c) THEN Get(NUMERALS, c) ELSE <<OrdOf[c]>>,
        len |-> 1, last |-> FALSE]
  ELSE IF c = " "
  THEN [kind |-> "space", out |-> IF spaces_as_tsheg THEN <<TSHEG>> ELSE <<OrdOf[" "]>>,
        len |-> 1, last |-> FALSE]
  ELSE IF punct.out # <<>>
  THEN [kind |-> "punctuation", out |-> punct.out, len |-> punct.len, last |-> FALSE]
  ELSE IF mark.out # <<>>
  THEN [kind |-> "mark", out |-> mark.out, len |-> mark.len, last |-> FALSE]
  ELSE IF vowel.out # <<>>
  THEN [kind |-> "vowel", out |-> vowel.out, len |-> vowel.len, last |-> TRUE]
  ELSE IF syllable.out # <<>>
  THEN [kind |-> "syllable", out |-> syllable.out, len |-> syllable.len, last |-> TRUE]
  ELSE [kind |-> "passthrough", out |-> <<OrdOf[c]>>, len |-> 1, last |-> FALSE]
\* the branch the loop body of transliterate takes at position p, with what
\* it appends, how far it advances and the new last_was_syllable
ScanBranch(c, spaces_as_tsheg, last, punct, mark, vowel, syllable) ==
  IF IsDigit(c)
  THEN [kind |-> "digit", out |-> IF HasKey(NUMERALS, c) THEN Get(NUMERALS, c) ELSE <<OrdOf[c]>>,
        len |-> 1, last |-> FALSE]
  ELSE IF c = " "
  THEN [kind |-> "space", out |-> IF spaces_as_tsheg THEN <<TSHEG>> ELSE <<OrdOf[" "]>>,
        len |-> 1, last |-> FALSE]
  ELSE IF punct.out # <<>>
  THEN [kind |-> "punctuation", out |-> punct.out, len |-> punct.len, last |-> FALSE]
  ELSE IF mark.out # <<>>
  THEN [kind |-> "mark", out |-> mark.out, len |-> mark.len, last |-> FALSE]
  ELSE IF ~last /\ vowel.out # <<>>
  THEN [kind |-> "vowel", out |-> vowel.out, len |-> vowel.len, last |-> TRUE]
  ELSE IF syllable.out # <<>>
  THEN [kind |-> "syllable", out |-> syllable.out, len |-> syllable.len, last |-> TRUE]
  ELSE [kind |-> "passthrough", out |-> <<OrdOf[c]>>, len |-> 1, last |-> FALSE]

\* a loop body that drops a character no rule recognizes
WithoutUnknown(step) ==
  IF step.kind = "passthrough" THEN [step EXCEPT !.out = <<>>] ELSE step
ScanStepDropping(text, p, spaces_as_tsheg, res, last) ==
  WithoutUnknown(ScanBranch(At(text, p), spaces_as_tsheg, last,
                            _match_punctuation(From(text, p)),
                            _match_sanskrit_mark(From(text, p), PrevChar(res)),
                            _match_standalone_vowel(From(text, p)),
                            _match_syllable(From(text, p))))
ScanStep(text, p, spaces_as_tsheg, res, last) ==
  ScanBranch(At(text, p), spaces_as_tsheg, last,
             _match_punctuation(From(text, p)),
             _match_sanskrit_mark(From(text, p), PrevChar(res)),
             _match_standalone_vowel(From(text, p)),
             _match_syllable(From(text, p)))

\* ''.join(result)
RECURSIVE Join(_)
Join(res) == IF res = <<>> THEN <<>> ELSE Head(res) \o Join(Tail(res))

\* the whole loop of transliterate from position p
RECURSIVE ScanFrom(_, _, _, _, _)
ScanOn(text, p, spaces_as_tsheg, res, step) ==
  ScanFrom(text, p + step.len, spaces_as_tsheg, Append(res, step.out), step.last)
ScanFrom(text, p, spaces_as_tsheg, res, last) ==
  IF p >= Len(text) THEN res
  ELSE ScanOn(text, p, spaces_as_tsheg, res, ScanStep(text, p, spaces_as_tsheg, res, last))

\* WylieToTibetanTransliterator.transliterate
wylie_to_unicode(text, spaces_as_tsheg) ==
  Join(ScanFrom(normalize(text), 0, spaces_as_tsheg, <<>>, FALSE))

----------------------------------------------------------------------------
(* ReverseCharacterMappings: dicts from a Unicode string (a sequence of    *)
(* code points) to its EWTS spelling, as functions                         *)

\* _reverse_dict: an entry is replaced only by a strictly shorter spelling,
\* so each value keeps the earliest of its shortest spellings
_reverse_dict(mapping) ==
  [u \in {mapping[k][2] : k \in 1..Len(mapping)} |->
     LET at == {k \in 1..Len(mapping) : mapping[k][2] = u}
         shortest == {k \in at : \A j \in at : Len(mapping[k][1]) <= Len(mapping[j][1])}
     IN mapping[Min(shortest)][1]]

\* wylie[:-1] if wylie.endswith('a') and len(wylie) > 1 else wylie
StripA(w) ==
  IF Len(w) > 1 /\ SubSeq(w, Len(w), Len(w)) = "a" THEN SubSeq(w, 1, Len(w) - 1) ELSE w

\* a dict filled by assignment in item order: the last item of a key wins
_subjoined_consonants ==
  LET in_range == {k \in 1..Len(CONSONANTS) :
                     /\ CONSONANTS[k][2][1] >= \h0F40
                     /\ CONSONANTS[k][2][1] <= \h0F6C}
  IN [u \in {<<CONSONANTS[k][2][1] + \h50>> : k \in in_range} |->
        StripA(CONSONANTS[Max({k \in in_range :
                                 <<CONSONANTS[k][2][1] + \h50>> = u})][1])]

COMPOUND_U == <<\h0F71, \h0F74>>
ALT_ANUSVARA == <<\h0F83>>
KSSA == <<\h0F40, \h0FB5>>

\* __init__ up to the combined lookup; update() lets the later dict win,
\* @@ lets the left one win
ReversedDicts ==
  [consonants |-> _reverse_dict(CONSONANTS),
   vowels |-> _reverse_dict(VOWELS),
   punctuation |-> _reverse_dict(PUNCTUATION),
   sanskrit_marks |-> _reverse_dict(SANSKRIT_MARKS),
   all_chars |->
     _subjoined_consonants @@ _reverse_dict(SANSKRIT_RETROFLEX) @@ _reverse_dict(NUMERALS)
     @@ _reverse_dict(SANSKRIT_MARKS) @@ _reverse_dict(PUNCTUATION)
     @@ _reverse_dict(SUBSCRIPTS) @@ _reverse_dict(VOWELS) @@ _reverse_dict(CONSONANTS)]

\* the three special entries, in order
AddCompoundU(m) ==
  IF COMPOUND_U \notin DOMAIN m.all_chars
  THEN [m EXCEPT !.vowels = (COMPOUND_U :> "U") @@ @,
                 !.all_chars = (COMPOUND_U :> "U") @@ @]
  ELSE m
AddAltAnusvara(m) ==
  IF ALT_ANUSVARA \notin DOMAIN m.all_chars
  THEN [m EXCEPT !.sanskrit_marks = (ALT_ANUSVARA :> "M") @@ @,
                 !.all_chars = (ALT_ANUSVARA :> "M") @@ @]
  ELSE m
AddKssa(m) ==
  [m EXCEPT !.consonants = (KSSA :> "kss") @@ @, !.all_chars = (KSSA :> "kss") @@ @]

\* a ReverseCharacterMappings object
ReverseCharacterMappings == AddKssa(AddAltAnusvara(AddCompoundU(ReversedDicts)))

get_wylie(m, unicode_char) ==
  IF unicode_char \in DOMAIN m.all_chars THEN m.all_chars[unicode_char] ELSE ""
is_consonant(m, unicode_char) == unicode_char \in DOMAIN m.consonants
is_vowel(m, unicode_char) == unicode_char \in DOMAIN m.vowels
is_punctuation(m, unicode_char) == unicode_char \in DOMAIN m.punctuation
is_tsheg(unicode_char) == unicode_char = <<TSHEG>>

----------------------------------------------------------------------------
(* TibetanToWylieTransliterator                                            *)

REVERSE_PRESCRIPTS == {"g", "d", "b", "m", "'"}
REVERSE_SUPERSCRIPTS == {"r", "l", "s"}
REVERSE_MARKS == {<<\h0F7E>>, <<\h0F7F>>, <<\h0F83>>}

\* text[p] and text[p:p+2] of a Unicode text, as Unicode strings
UAt(text, p) == IF p >= 0 /\ p < Len(text) THEN <<text[p + 1]>> ELSE <<>>
UPair(text, p) == IF p + 1 < Len(text) THEN <<text[p + 1], text[p + 2]>> ELSE UAt(text, p)
UFrom(text, p) == IF p >= Len(text) THEN <<>> ELSE SubSeq(text, p + 1, Len(text))
InSubjoinedBlock(text, p) ==
  p < Len(text) /\ text[p + 1] >= \h0F90 /\ text[p + 1] <= \h0FBC

\* a code point copied to the EWTS output: itself when printable ASCII,
\* otherwise written \uXXXX
HexDigit(n) == SubSeq("0123456789ABCDEF", n + 1, n + 1)
Hex4(n) == HexDigit((n \div 4096) % 16) \o HexDigit((n \div 256) % 16)
           \o HexDigit((n \div 16) % 16) \o HexDigit(n % 16)
CharOf(n) == IF n >= 32 /\ n <= 126 /\ n # 96 THEN Chr(n) ELSE "\\u" \o Hex4(n)
OrElse(w, unicode_char) == IF w # "" THEN w ELSE CharOf(unicode_char[1])

\* step 4: the run of subjoined code points from p on, as spellings
RECURSIVE Subscripts(_, _, _)
Subscripts(m, text, p) ==
  IF InSubjoinedBlock(text, p) /\ get_wylie(m, UAt(text, p)) # ""
  THEN <<get_wylie(m, UAt(text, p))>> \o Subscripts(m, text, p + 1)
  ELSE <<>>

\* step 6: the run of base consonants from p on, as spellings
RECURSIVE Postscripts(_, _, _)
Postscripts(m, text, p) ==
  IF p < Len(text) /\ is_consonant(m, UAt(text, p)) /\ get_wylie(m, UAt(text, p)) # ""
  THEN <<StripA(get_wylie(m, UAt(text, p)))>> \o Postscripts(m, text, p + 1)
  ELSE <<>>

\* step 7: the run of Sanskrit marks from p on, as spellings
RECURSIVE Marks(_, _, _)
Marks(m, text, p) ==
  IF p < Len(text) /\ UAt(text, p) \in REVERSE_MARKS /\ get_wylie(m, UAt(text, p)) # ""
  THEN <<get_wylie(m, UAt(text, p))>> \o Marks(m, text, p + 1)
  ELSE <<>>

RECURSIVE Concat(_)
Concat(strs) == IF strs = <<>> THEN "" ELSE Head(strs) \o Concat(Tail(strs))

\* the locals of TibetanToWylieTransliterator._match_syllable; sign_at is
\* the value of pos when step 5 begins
DecodeStart ==
  [prescript |-> "", superscript |-> "", root |-> "", subscripts |-> <<>>,
   vowel |-> "", has_explicit_vowel |-> FALSE, sign_at |-> 0,
   postscripts |-> <<>>, marks |-> <<>>, pos |-> 0]

\* step 1: a base consonant of the prescript set, followed by a base consonant
StepPrescript(m, text, d) ==
  IF /\ d.pos < Len(text) /\ is_consonant(m, UAt(text, d.pos))
     /\ get_wylie(m, UAt(text, d.pos)) # ""
     /\ StripA(get_wylie(m, UAt(text, d.pos))) \in REVERSE_PRESCRIPTS
     /\ d.pos + 1 < Len(text) /\ is_consonant(m, UAt(text, d.pos + 1))
     /\ ~InSubjoinedBlock(text, d.pos + 1)
  THEN [d EXCEPT !.prescript = StripA(get_wylie(m, UAt(text, d.pos))), !.pos = @ + 1]
  ELSE d

\* step 2 without its look-ahead: any base consonant of the superscript set
StepSuperscriptAnywhere(m, text, d) ==
  IF /\ d.pos < Len(text) /\ is_consonant(m, UAt(text, d.pos))
     /\ get_wylie(m, UAt(text, d.pos)) # ""
     /\ StripA(get_wylie(m, UAt(text, d.pos))) \in REVERSE_SUPERSCRIPTS
  THEN [d EXCEPT !.superscript = StripA(get_wylie(m, UAt(text, d.pos))), !.pos = @ + 1]
  ELSE d
\* step 2: a base consonant of the superscript set, followed by a subjoined one
StepSuperscript(m, text, d) ==
  IF /\ d.pos < Len(text) /\ is_consonant(m, UAt(text, d.pos))
     /\ get_wylie(m, UAt(text, d.pos)) # ""
     /\ StripA(get_wylie(m, UAt(text, d.pos))) \in REVERSE_SUPERSCRIPTS
     /\ d.pos + 1 < Len(text) /\ InSubjoinedBlock(text, d.pos + 1)
  THEN [d EXCEPT !.superscript = StripA(get_wylie(m, UAt(text, d.pos))), !.pos = @ + 1]
  ELSE d

\* step 3: the root, subjoined under a superscript, a base consonant otherwise
StepRoot(m, text, d) ==
  IF d.pos >= Len(text) THEN d
  ELSE IF d.superscript # "" /\ InSubjoinedBlock(text, d.pos)
  THEN IF get_wylie(m, UAt(text, d.pos)) # ""
       THEN [d EXCEPT !.root = get_wylie(m, UAt(text, d.pos)), !.pos = @ + 1]
       ELSE d
  ELSE IF is_consonant(m, UAt(text, d.pos)) /\ get_wylie(m, UAt(text, d.pos)) # ""
  THEN [d EXCEPT !.root = StripA(get_wylie(m, UAt(text, d.pos))), !.pos = @ + 1]
  ELSE d

StepSubscripts(m, text, d) ==
  [d EXCEPT !.subscripts = Subscripts(m, text, d.pos),
            !.pos = @ + Len(Subscripts(m, text, d.pos))]

\* step 5: a two-code-point entry of the combined lookup, else a vowel sign
StepVowel(m, text, d) ==
  IF d.pos + 1 < Len(text) /\ get_wylie(m, UPair(text, d.pos)) # ""
  THEN [d EXCEPT !.vowel = get_wylie(m, UPair(text, d.pos)), !.has_explicit_vowel = TRUE,
                 !.sign_at = d.pos, !.pos = @ + 2]
  ELSE IF d.pos < Len(text) /\ is_vowel(m, UAt(text, d.pos))
  THEN IF get_wylie(m, UAt(text, d.pos)) # "" /\ get_wylie(m, UAt(text, d.pos)) # "a"
       THEN [d EXCEPT !.vowel = get_wylie(m, UAt(text, d.pos)), !.has_explicit_vowel = TRUE,
                      !.sign_at = d.pos, !.pos = @ + 1]
       ELSE [d EXCEPT !.sign_at = d.pos, !.pos = @ + 1]
  ELSE [d EXCEPT !.sign_at = d.pos]

StepPostscripts(m, text, d) ==
  [d EXCEPT !.postscripts = Postscripts(m, text, d.pos),
            !.pos = @ + Len(Postscripts(m, text, d.pos))]

StepMarks(m, text, d) ==
  [d EXCEPT !.marks = Marks(m, text, d.pos), !.pos = @ + Len(Marks(m, text, d.pos))]

\* steps 4 to 7, which run only when step 3 found a root
AfterRoot(m, text, d) ==
  IF d.root = "" THEN d
  ELSE StepMarks(m, text, StepPostscripts(m, text, StepVowel(m, text,
         StepSubscripts(m, text, d))))

\* the slots _match_syllable decodes from text
Decode(m, text) ==
  AfterRoot(m, text, StepRoot(m, text, StepSuperscript(m, text,
    StepPrescript(m, text, DecodeStart))))

\* the EWTS text the decoded slots are rendered to
Render(d) ==
  d.prescript \o d.superscript
  \o (IF /\ d.root = "a" /\ d.has_explicit_vowel /\ d.subscripts = <<>>
         /\ d.prescript = "" /\ d.superscript = ""
      THEN d.vowel
      ELSE d.root \o Concat(d.subscripts)
           \o (IF ~d.has_explicit_vowel /\ d.root # "a" THEN "a" ELSE "")
           \o d.vowel)
  \o Concat(d.postscripts) \o Concat(d.marks)

\* TibetanToWylieTransliterator._match_syllable: (wylie, length)
Rendered(d) ==
  IF d.root = "" THEN [out |-> "", len |-> 0] ELSE [out |-> Render(d), len |-> d.pos]
reverse_match_syllable(m, text) ==
  IF text = <<>> THEN [out |-> "", len |-> 0] ELSE Rendered(Decode(m, text))

\* the branches of the loop body of transliterate, in order
ReverseBranch(m, char, compound, syllable) ==
  IF is_tsheg(char) THEN [kind |-> "tsheg", out |-> " ", len |-> 1]
  ELSE IF char[1] >= \h0F20 /\ char[1] <= \h0F29
  THEN [kind |-> "digit", out |-> OrElse(get_wylie(m, char), char), len |-> 1]
  ELSE IF is_punctuation(m, char)
  THEN [kind |-> "punctuation",
        out |-> IF char = <<\h0F0E>> THEN "//" ELSE OrElse(get_wylie(m, char), char),
        len |-> 1]
  ELSE IF char \in REVERSE_MARKS
  THEN [kind |-> "mark", out |-> OrElse(get_wylie(m, char), char), len |-> 1]
  ELSE IF compound # "" THEN [kind |-> "compound", out |-> compound, len |-> 2]
  ELSE IF syllable.out # "" THEN [kind |-> "syllable", out |-> syllable.out, len |-> syllable.len]
  ELSE [kind |-> "passthrough", out |-> CharOf(char[1]), len |-> 1]

\* one iteration of the loop of TibetanToWylieTransliterator.transliterate
ReverseStep(m, text, p) ==
  ReverseBranch(m, UAt(text, p),
                IF p + 1 < Len(text) THEN get_wylie(m, UPair(text, p)) ELSE "",
                reverse_match_syllable(m, UFrom(text, p)))

RECURSIVE ReverseFrom(_, _, _)
ReverseOn(m, text, p, step) == step.out \o ReverseFrom(m, text, p + step.len)
ReverseFrom(m, text, p) ==
  IF p >= Len(text) THEN "" ELSE ReverseOn(m, text, p, ReverseStep(m, text, p))

\* the iterations of the loop of transliterate from position p on: the
\* branch taken, what it appended and where it stood
RECURSIVE ReverseUnits(_, _, _)
ReverseUnitsOn(m, text, p, step) ==
  <<[kind |-> step.kind, out |-> step.out, start |-> p, length |-> step.len]>>
  \o ReverseUnits(m, text, p + step.len)
ReverseUnits(m, text, p) ==
  IF p >= Len(text) THEN <<>> ELSE ReverseUnitsOn(m, text, p, ReverseStep(m, text, p))

\* TibetanToWylieTransliterator.transliterate
unicode_to_wylie(text) == ReverseFrom(ReverseCharacterMappings, text, 0)

----------------------------------------------------------------------------
(* SyllableStructureRules, ValidationErrorType                             *)

\* the allowed roots of each key, in the dicts' insertion order
VALID_PRESCRIPT_COMBINATIONS ==
  << <<"g", {"n", "ny", "s", "sh", "ts", "y", "z"}>>,
     <<"d", {"k", "g", "ng", "p", "b", "m", "w", "n", "ny", "r", "l", "s", "ts"}>>,
     <<"b", {"k", "g", "c", "j", "ng", "s", "sh", "r", "l", "d", "ts", "w", "z", "zh", "kss"}>>,
     <<"m", {"kh", "g", "ng", "ch", "j", "ny", "th", "d", "n", "dz", "ts", "tsh"}>>,
     <<"'", {"a"}>> >>

VALID_SUPERSCRIPT_COMBINATIONS ==
  << <<"r", {"k", "g", "ng", "j", "ny", "t", "d", "n", "b", "m", "ts", "dz"}>>,
     <<"l", {"k", "g", "ng", "c", "j", "p", "b", "h"}>>,
     <<"s", {"k", "g", "ng", "ny", "t", "d", "n", "p", "b", "m", "ts"}>> >>

VALID_SUBSCRIPT_COMBINATIONS ==
  << <<"r", {"k", "kh", "g", "t", "th", "d", "p", "ph", "b", "s", "h",
             "tt", "tth", "dd", "ddh"}>>,
     <<"l", {"k", "g", "s", "z", "r"}>>,
     <<"y", {"k", "kh", "g", "p", "ph", "b", "m", "s", "h"}>>,
     <<"w", {"k", "kh", "g", "t", "th", "d", "ts", "tsh", "zh", "z",
             "s", "r", "l", "sh", "h"}>>,
     <<"m", {"k", "kh", "g", "ng", "c", "ch", "j", "ny", "t", "th", "d", "n",
             "p", "ph", "b", "m", "ts", "tsh", "dz", "w", "zh", "z", "s", "h",
             "r", "l", "sh"}>>,
     <<"r+w", {"g", "d"}>>,
     <<"r+l", {"k"}>> >>

VALID_POSTSCRIPTS == <<"g", "ng", "d", "n", "b", "m", "r", "l", "s">>
VALID_SECOND_POSTSCRIPTS == <<"s", "d">>

\* dict.get(key, frozenset())
RootsOf(table, key) ==
  IF HasKey(table, key)
  THEN table[CHOOSE k \in 1..Len(table) : table[k][1] = key][2]
  ELSE {}

ValidationErrorType ==
  [UNKNOWN_CHARACTER |-> "unknown_character",
   INVALID_PRESCRIPT |-> "invalid_prescript",
   INVALID_SUPERSCRIPT |-> "invalid_superscript",
   INVALID_SUBSCRIPT |-> "invalid_subscript",
   INVALID_POSTSCRIPT |-> "invalid_postscript",
   INVALID_SYLLABLE_STRUCTURE |-> "invalid_syllable_structure",
   AMBIGUOUS_PARSING |-> "ambiguous_parsing"]

\* a ValidationError without its message and suggestion texts
ValidationError(error_type, position, syllable) ==
  [error_type |-> error_type, position |-> position, syllable |-> syllable]

----------------------------------------------------------------------------
(* WylieValidator                                                          *)

valid_chars ==
  SetOfKeys(CONSONANTS) \cup SetOfKeys(VOWELS) \cup SetOfKeys(SUBSCRIPTS)
  \cup SetOfKeys(PUNCTUATION) \cup SetOfKeys(SANSKRIT_MARKS) \cup SetOfKeys(NUMERALS)
  \cup SetOfKeys(SANSKRIT_RETROFLEX)
  \cup {" ", "\n", "\t", "/", "|", "+", "'", ".", "-", "~"}
  \cup CharsOf(DIGITS) \cup CharsOf(UPPER)

\* _tokenize with the token being collected in current
RECURSIVE TokenizeFrom(_, _, _)
TokenizeFrom(text, p, current) ==
  IF p >= Len(text) THEN (IF current # "" THEN <<current>> ELSE <<>>)
  ELSE IF At(text, p) \in {" ", "\t", "\n", "/", "|"}
       THEN (IF current # "" THEN <<current>> ELSE <<>>)
            \o <<At(text, p)>> \o TokenizeFrom(text, p + 1, "")
       ELSE TokenizeFrom(text, p + 1, current \o At(text, p))

\* a tokenizer that throws the separators away
_tokenize_dropping(text) ==
  SelectSeq(TokenizeFrom(text, 0, ""),
            LAMBDA t : t \notin {" ", "\t", "\n", "/", "|"})
_tokenize(text) == TokenizeFrom(text, 0, "")

_is_punctuation_only(text) == \A c \in CharsOf(text) : c \in {" ", "\t", "\n", "/", "|", "."}
_is_numeral(syllable) == \A c \in CharsOf(syllable) : c \in CharsOf(DIGITS)

_is_standalone_vowel(syllable) ==
  \/ HasKey(VOWELS, syllable)
  \/ \E k \in 1..Len(VOWELS) :
        /\ StartsWith(syllable, VOWELS[k][1])
        /\ \/ HasKey(SANSKRIT_MARKS, From(syllable, Len(VOWELS[k][1])))
           \/ From(syllable, Len(VOWELS[k][1])) = ""

_is_sanskrit_mark_only(syllable) == HasKey(SANSKRIT_MARKS, syllable)

\* the characters reported unknown from position p on, in order: a valid
\* spelling of length 3, 2 or 1 at p is skipped, the longest first
RECURSIVE UnknownFrom(_, _)
UnknownFrom(syllable, p) ==
  IF p >= Len(syllable) THEN <<>>
  ELSE IF \E n \in {3, 2, 1} : p + n <= Len(syllable)
                               /\ Slice(syllable, p, p + n) \in valid_chars
  THEN UnknownFrom(syllable,
                   p + Max({n \in {3, 2, 1} : p + n <= Len(syllable)
                                              /\ Slice(syllable, p, p + n) \in valid_chars}))
  ELSE (IF At(syllable, p) \notin valid_chars THEN <<At(syllable, p)>> ELSE <<>>)
       \o UnknownFrom(syllable, p + 1)

_find_unknown_characters(syllable) == UnknownFrom(syllable, 0)

\* the steps the five strategies share, on the components matched so far and
\* pos as in _try_strategy: each takes the longest spelling that matches at pos
VRoot(syllable, s) ==
  TookAll(s, "root",
          FirstOf(CONSONANT_KEYS,
                  LAMBDA cons : \/ StartsWith(From(syllable, s.pos), cons)
                                \/ StartsWith(Lower(From(syllable, s.pos)), cons)))
\* 'a' is matched only when more text follows it
VVowel(syllable, s) ==
  TookAll(s, "vowel",
          FirstOf(VOWEL_KEYS,
                  LAMBDA v : /\ StartsWith(From(syllable, s.pos), v)
                             /\ (v = "a" => s.pos + 1 < Len(syllable))))
VVowelNotA(syllable, s) ==
  TookAll(s, "vowel",
          FirstOf(SelectSeq(VOWEL_KEYS, LAMBDA k : k # "a"),
                  LAMBDA v : StartsWith(From(syllable, s.pos), v)))
\* a postscript matcher that reads the postscripts of the transliteration
\* tables, the apostrophe among them
VPostscriptSpelled(syllable, s) ==
  TookAll(s, "postscript1",
          FirstOf(ByLenDesc(POSTSCRIPTS),
                  LAMBDA post : StartsWith(Lower(From(syllable, s.pos)), post)))
VPostscript(syllable, s) ==
  TookAll(s, "postscript1",
          FirstOf(ByLenDesc(VALID_POSTSCRIPTS),
                  LAMBDA post : StartsWith(Lower(From(syllable, s.pos)), post)))
VPostscript2(syllable, s) ==
  IF s.components.postscript1 = "" THEN s
  ELSE TookAll(s, "postscript2",
               FirstOf(ByLenDesc(VALID_SECOND_POSTSCRIPTS),
                       LAMBDA post : StartsWith(Lower(From(syllable, s.pos)), post)))
\* a prescript matcher that never finds one
VPrescriptNever(syllable, s) == s
VPrescript(syllable, s) ==
  TookAll(s, "prescript",
          FirstOf(ByLenDesc(Keys(VALID_PRESCRIPT_COMBINATIONS)),
                  LAMBDA pre : StartsWith(Lower(From(syllable, s.pos)), pre)))
VSuperscript(syllable, s) ==
  TookAll(s, "superscript",
          FirstOf(ByLenDesc(Keys(VALID_SUPERSCRIPT_COMBINATIONS)),
                  LAMBDA sup : StartsWith(Lower(From(syllable, s.pos)), sup)))
VSubscript(syllable, s) ==
  TookAll(s, "subscript",
          FirstOf(SUBSCRIPT_KEYS, LAMBDA sub : StartsWith(Lower(From(syllable, s.pos)), sub)))
\* a second subscript is joined to the first with '+'
VSubscript2(syllable, s) ==
  Took(s, "subscript",
       IF VSubscript(syllable, s).components.subscript # ""
       THEN s.components.subscript \o "+" \o VSubscript(syllable, s).components.subscript
       ELSE s.components.subscript,
       Len(VSubscript(syllable, s).components.subscript))

\* postscripts from pos on, then the strategy's result
VTail(syllable, s) ==
  [ok |-> TRUE,
   components |-> [VPostscript2(syllable, VPostscript(syllable, s)).components
                     EXCEPT !.root = Lower(@)],
   length |-> VPostscript2(syllable, VPostscript(syllable, s)).pos]

_parse_simple(syllable) ==
  IF VRoot(syllable, TryStart).components.root = "" THEN NoParse
  ELSE VTail(syllable, VVowel(syllable, VRoot(syllable, TryStart)))

_parse_with_subscript(syllable) ==
  IF VRoot(syllable, TryStart).components.root = "" THEN NoParse
  ELSE IF VSubscript(syllable, VRoot(syllable, TryStart)).components.subscript = ""
  THEN NoParse
  ELSE VTail(syllable, VVowel(syllable, VSubscript2(syllable,
         VSubscript(syllable, VRoot(syllable, TryStart)))))

_parse_with_superscript(syllable) ==
  IF VSuperscript(syllable, TryStart).components.superscript = "" THEN NoParse
  ELSE IF VRoot(syllable, VSuperscript(syllable, TryStart)).components.root = ""
  THEN NoParse
  ELSE VTail(syllable, VVowelNotA(syllable,
         VRoot(syllable, VSuperscript(syllable, TryStart))))

_parse_with_prescript(syllable) ==
  IF VPrescript(syllable, TryStart).components.prescript = "" THEN NoParse
  ELSE IF VRoot(syllable, VPrescript(syllable, TryStart)).components.root = ""
  THEN NoParse
  ELSE VTail(syllable, VVowelNotA(syllable,
         VRoot(syllable, VPrescript(syllable, TryStart))))

\* prescript and superscript are both optional here, but one must be found
VFullFrom(syllable, s) ==
  IF s.components.root = ""
     \/ (s.components.prescript = "" /\ s.components.superscript = "")
  THEN NoParse
  ELSE VTail(syllable, VVowel(syllable, VSubscript(syllable, s)))
_parse_full(syllable) ==
  VFullFrom(syllable, VRoot(syllable, VSuperscript(syllable, VPrescript(syllable, TryStart))))

\* component checks that report a subscript without an entry in the rule
\* table as an error, like a root outside the entry of a subscript that has one
_validate_components_no_warning(components, syllable, position) ==
  LET sub_roots == RootsOf(VALID_SUBSCRIPT_COMBINATIONS, components.subscript)
  IN [errors |->
        (IF /\ components.prescript # "" /\ components.root # ""
            /\ components.root \notin RootsOf(VALID_PRESCRIPT_COMBINATIONS, components.prescript)
         THEN <<ValidationError(ValidationErrorType.INVALID_PRESCRIPT, position, syllable)>> ELSE <<>>)
        \o (IF /\ components.superscript # "" /\ components.root # ""
               /\ components.root \notin RootsOf(VALID_SUPERSCRIPT_COMBINATIONS, components.superscript)
            THEN <<ValidationError(ValidationErrorType.INVALID_SUPERSCRIPT, position, syllable)>> ELSE <<>>)
        \o (IF /\ components.subscript # "" /\ components.root # ""
               /\ components.root \notin sub_roots
            THEN <<ValidationError(ValidationErrorType.INVALID_SUBSCRIPT, position, syllable)>> ELSE <<>>)
        \o (IF components.postscript1 # "" /\ (\A k \in 1..Len(VALID_POSTSCRIPTS) : VALID_POSTSCRIPTS[k] # components.postscript1)
            THEN <<ValidationError(ValidationErrorType.INVALID_POSTSCRIPT, position, syllable)>> ELSE <<>>)
        \o (IF components.postscript2 # "" /\ (\A k \in 1..Len(VALID_SECOND_POSTSCRIPTS) :
                  VALID_SECOND_POSTSCRIPTS[k] # components.postscript2)
            THEN <<ValidationError(ValidationErrorType.INVALID_POSTSCRIPT, position, syllable)>> ELSE <<>>),
      warnings |->
        <<>>]
\* (errors, warnings) of the components, in the order the checks run
_validate_components(components, syllable, position) ==
  LET sub_roots == RootsOf(VALID_SUBSCRIPT_COMBINATIONS, components.subscript)
  IN [errors |->
        (IF /\ components.prescript # "" /\ components.root # ""
            /\ components.root \notin RootsOf(VALID_PRESCRIPT_COMBINATIONS, components.prescript)
         THEN <<ValidationError(ValidationErrorType.INVALID_PRESCRIPT, position, syllable)>> ELSE <<>>)
        \o (IF /\ components.superscript # "" /\ components.root # ""
               /\ components.root \notin RootsOf(VALID_SUPERSCRIPT_COMBINATIONS, components.superscript)
            THEN <<ValidationError(ValidationErrorType.INVALID_SUPERSCRIPT, position, syllable)>> ELSE <<>>)
        \o (IF /\ components.subscript # "" /\ components.root # ""
               /\ sub_roots # {} /\ components.root \notin sub_roots
            THEN <<ValidationError(ValidationErrorType.INVALID_SUBSCRIPT, position, syllable)>> ELSE <<>>)
        \o (IF components.postscript1 # "" /\ (\A k \in 1..Len(VALID_POSTSCRIPTS) : VALID_POSTSCRIPTS[k] # components.postscript1)
            THEN <<ValidationError(ValidationErrorType.INVALID_POSTSCRIPT, position, syllable)>> ELSE <<>>)
        \o (IF components.postscript2 # "" /\ (\A k \in 1..Len(VALID_SECOND_POSTSCRIPTS) :
                  VALID_SECOND_POSTSCRIPTS[k] # components.postscript2)
            THEN <<ValidationError(ValidationErrorType.INVALID_POSTSCRIPT, position, syllable)>> ELSE <<>>),
      warnings |->
        IF components.subscript # "" /\ components.root # "" /\ sub_roots = {}
        THEN <<ValidationError(ValidationErrorType.AMBIGUOUS_PARSING, position, syllable)>> ELSE <<>>]

\* the results of the five strategies that produced components, in the
\* order tried, each with the number of errors of its components
WithErrors(syllable, kept) ==
  [k \in 1..Len(kept) |->
     [ok |-> TRUE, components |-> kept[k].components, length |-> kept[k].length,
      nerrors |-> Len(_validate_components(kept[k].components, syllable, 0).errors)]]
StrategyParses(syllable) ==
  WithErrors(syllable,
             SelectSeq(<<_parse_simple(syllable), _parse_with_subscript(syllable),
                         _parse_with_superscript(syllable), _parse_with_prescript(syllable),
                         _parse_full(syllable)>>,
                       LAMBDA r : r.ok /\ r.length > 0))

\* max(parses, key=length): the first of the longest
Longest(parses) ==
  parses[Min({k \in 1..Len(parses) : \A j \in 1..Len(parses) :
                parses[k].length >= parses[j].length})]
\* min(parses, key=(number of errors, -length)): the first of the least
FewestErrors(parses) ==
  parses[Min({k \in 1..Len(parses) : \A j \in 1..Len(parses) :
                \/ parses[k].nerrors < parses[j].nerrors
                \/ /\ parses[k].nerrors = parses[j].nerrors
                   /\ parses[k].length >= parses[j].length})]

IsComplete(parse, syllable) == parse.length >= Len(syllable) - 1

\* a choice that prefers any parse without errors to a complete one with errors
BestParseValidFirst(valid_parses, invalid_parses, complete_valid_parses, complete_invalid_parses) ==
  IF complete_valid_parses # <<>> THEN Longest(complete_valid_parses)
  ELSE IF valid_parses # <<>> THEN Longest(valid_parses)
  ELSE IF complete_invalid_parses # <<>> THEN FewestErrors(complete_invalid_parses)
  ELSE FewestErrors(invalid_parses)
\* the choice among the complete and the partial, the valid and the invalid
BestParse(valid_parses, invalid_parses, complete_valid_parses, complete_invalid_parses) ==
  IF complete_valid_parses # <<>> THEN Longest(complete_valid_parses)
  ELSE IF complete_invalid_parses # <<>> THEN FewestErrors(complete_invalid_parses)
  ELSE IF valid_parses # <<>> THEN Longest(valid_parses)
  ELSE FewestErrors(invalid_parses)

PickParse(syllable, parses) ==
  IF parses = <<>> THEN NoParse
  ELSE BestParse(SelectSeq(parses, LAMBDA r : r.nerrors = 0),
                 SelectSeq(parses, LAMBDA r : r.nerrors # 0),
                 SelectSeq(parses, LAMBDA r : r.nerrors = 0 /\ IsComplete(r, syllable)),
                 SelectSeq(parses, LAMBDA r : r.nerrors # 0 /\ IsComplete(r, syllable)))

\* .ok FALSE stands for None
_parse_syllable_structure(syllable) == PickParse(syllable, StrategyParses(syllable))

NoFindings == [errors |-> <<>>, warnings |-> <<>>]

\* errors.extend(), warnings.extend()
Extend(here, rest) ==
  [errors |-> here.errors \o rest.errors, warnings |-> here.warnings \o rest.warnings]

\* the findings of a token that survived the early returns
StructureFindings(syllable, position, parse) ==
  IF ~parse.ok
  THEN [errors |-> <<ValidationError(ValidationErrorType.INVALID_SYLLABLE_STRUCTURE, position, syllable)>>,
        warnings |-> <<>>]
  ELSE _validate_components(parse.components, syllable, position)

\* a validator that reports the unknown characters and goes on to the
\* structural checks instead of returning
_validate_syllable_unstopped(syllable, position) ==
  IF _find_unknown_characters(syllable) # <<>>
  THEN Extend([errors |-> <<ValidationError(ValidationErrorType.UNKNOWN_CHARACTER,
                                           position, syllable)>>,
               warnings |-> <<>>],
              StructureFindings(syllable, position, _parse_syllable_structure(syllable)))
  ELSE IF _is_numeral(syllable) THEN NoFindings
  ELSE IF _is_standalone_vowel(syllable) THEN NoFindings
  ELSE IF _is_sanskrit_mark_only(syllable) THEN NoFindings
  ELSE StructureFindings(syllable, position, _parse_syllable_structure(syllable))

\* (errors, warnings) of one token
_validate_syllable(syllable, position) ==
  IF _find_unknown_characters(syllable) # <<>>
  THEN [errors |-> <<ValidationError(ValidationErrorType.UNKNOWN_CHARACTER, position, syllable)>>,
        warnings |-> <<>>]
  ELSE IF _is_numeral(syllable) THEN NoFindings
  ELSE IF _is_standalone_vowel(syllable) THEN NoFindings
  ELSE IF _is_sanskrit_mark_only(syllable) THEN NoFindings
  ELSE StructureFindings(syllable, position, _parse_syllable_structure(syllable))

\* the findings of the tokens from the n-th on, position being the offset
\* of the n-th token
RECURSIVE ValidateTokens(_, _, _)
ValidateTokens(tokens, n, position) ==
  IF n > Len(tokens) THEN NoFindings
  ELSE Extend(IF _is_punctuation_only(tokens[n]) THEN NoFindings
              ELSE _validate_syllable(tokens[n], position),
              ValidateTokens(tokens, n + 1, position + Len(tokens[n])))

\* a result that counts warnings as failures
ValidationResultStrict(found) ==
  [is_valid |-> Len(found.errors) = 0 /\ Len(found.warnings) = 0,
   errors |-> found.errors, warnings |-> found.warnings]
ValidationResult(found) ==
  [is_valid |-> Len(found.errors) = 0, errors |-> found.errors, warnings |-> found.warnings]

\* WylieValidator.validate: the ValidationResult
validate(wylie_text) == ValidationResult(ValidateTokens(_tokenize(wylie_text), 1, 0))

----------------------------------------------------------------------------
(* Inputs                                                                  *)

MaxLen == 3     \* longest EWTS text drawn exhaustively from Sigma
MaxULen == 3    \* longest Unicode text drawn exhaustively from USigma

Sigma == {"k", "a", "i", "S", " ", "@"}
USigma == {\h0F40, \h0F66, \h0F68, \h0F90, \h0FB5, \h0F7C}

RECURSIVE StringsOfLen(_)
StringsOfLen(n) ==
  IF n = 0 THEN {""} ELSE {s \o c : s \in StringsOfLen(n - 1), c \in Sigma}
ShortStrings == UNION {StringsOfLen(n) : n \in 1..MaxLen}

RECURSIVE USeqsOfLen(_)
USeqsOfLen(n) ==
  IF n = 0 THEN {<<>>} ELSE {Append(s, c) : s \in USeqsOfLen(n - 1), c \in USigma}
ShortUSeqs == UNION {USeqsOfLen(n) : n \in 1..MaxULen}

\* words and syllables of the repository's tests
Corpus ==
  {"ka", "kha", "ga", "pa", "ma", "bla", "rka", "ska", "bya",
   "bla ma", "sangs rgyas", "byang chub", "bsgrubs", "dag", "ba'i",
   "dme", "d+me", "hUM", "oM", "om", "Ni", "KA", "KHA", "KI", "Si",
   "gka", "mpa", "gra", "gda", "1959", "ka@ba", "xyz", "-i", "k+Ta", "n+D",
   "oM ma Ni pa dme hUM|", "ka nga/ da ma||", "gk@ rka", "hu M",
   "rTa", "KE", "ke", "ki", "kke", "gro", "ka@#$ba", "kva", "rsa",
   "k+k+", "k+r+i", "kaom"}

\* syllables spelled slot by slot, with the combinations the rule tables allow
SlotSyllables ==
  {pre \o sup \o root \o sub \o vowel \o post :
     pre \in {"", "b", "d"}, sup \in {"", "s", "r"}, root \in {"k", "g", "d"},
     sub \in {"", "r", "y"}, vowel \in {"a", "u"}, post \in {"", "g", "s", "bs"}}

\* a prescript letter, then a consonant, then a vowel
PrescriptTokens ==
  {pre \o CONSONANTS[k][1] \o vowel :
     pre \in {"g", "d", "b", "m", "'"}, k \in 1..Len(CONSONANTS),
     vowel \in {"a", "u", "-i"}}

\* a consonant with its 'a', then an apostrophe and a vowel, as in "ba'i"
ApostropheWords ==
  {StripA(CONSONANTS[k][1]) \o "a'" \o vowel :
     k \in 1..Len(CONSONANTS), vowel \in {"i", "u", "e", "o"}}

\* the root k, then '+' and a key of the subjoined table, then the vowel a
ExplicitStacks == {"k+" \o SUBJOINED[k][1] \o "a" : k \in 1..Len(SUBJOINED)}

WylieInputs ==
  Corpus \cup ShortStrings \cup SlotSyllables \cup PrescriptTokens \cup ApostropheWords
  \cup ExplicitStacks

\* every base consonant alone, and the short texts over USigma
BaseConsonants == {CONSONANTS[k][2] : k \in 1..Len(CONSONANTS)}
TibetanInputs == BaseConsonants \cup ShortUSeqs

HasSpace(text) == " " \in CharsOf(text)
NoReport == [is_valid |-> TRUE, errors |-> <<>>, warnings |-> <<>>]

----------------------------------------------------------------------------
(* Specification: one call sequence on a service.  A "wylie" run is        *)
(* wylie_to_unicode(wylie, tsheg), then unicode_to_wylie of its result,    *)
(* then validate(wylie); a "tibetan" run is unicode_to_wylie(tibetan).     *)

Init ==
  /\ \/ /\ mode = "wylie"
        /\ wylie \in WylieInputs
        /\ tsheg \in (IF HasSpace(wylie) THEN BOOLEAN ELSE {TRUE})
        /\ tibetan = <<>>
     \/ /\ mode = "tibetan"
        /\ wylie = ""
        /\ tsheg = TRUE
        /\ tibetan \in TibetanInputs
  /\ pc = "start"
  /\ normalized = ""
  /\ i = 0
  /\ result = <<>>
  /\ units = <<>>
  /\ last_was_syllable = FALSE
  /\ back = ""
  /\ report = NoReport
  /\ mappings = ReverseCharacterMappings

\* transliterate: normalizer.normalize(wylie_text)
Normalize ==
  /\ pc = "start" /\ mode = "wylie"
  /\ normalized' = normalize(wylie)
  /\ pc' = "scan"
  /\ UNCHANGED <<mode, wylie, tsheg, tibetan, i, result, units, last_was_syllable,
                 back, report, mappings>>

\* an iteration that appends its unit and stays where it stands
ScanInPlace(kind, step) ==
  /\ i < Len(normalized)
  /\ step.kind = kind
  /\ result' = Append(result, step.out)
  /\ units' = Append(units, [kind |-> kind, start |-> i, length |-> step.len])
  /\ i' = i
  /\ last_was_syllable' = step.last
  /\ UNCHANGED <<mode, wylie, tsheg, tibetan, pc, normalized, back, report, mappings>>
\* transliterate: one iteration of the while loop that takes the branch kind
Scan(kind, step) ==
  /\ i < Len(normalized)
  /\ step.kind = kind
  /\ result' = Append(result, step.out)
  /\ units' = Append(units, [kind |-> kind, start |-> i, length |-> step.len])
  /\ i' = i + step.len
  /\ last_was_syllable' = step.last
  /\ UNCHANGED <<mode, wylie, tsheg, tibetan, pc, normalized, back, report, mappings>>

ScanDigit ==
  /\ pc = "scan"
  /\ Scan("digit", ScanStep(normalized, i, tsheg, result, last_was_syllable))
ScanSpace ==
  /\ pc = "scan"
  /\ Scan("space", ScanStep(normalized, i, tsheg, result, last_was_syllable))
ScanPunctuation ==
  /\ pc = "scan"
  /\ Scan("punctuation", ScanStep(normalized, i, tsheg, result, last_was_syllable))
ScanMark ==
  /\ pc = "scan"
  /\ Scan("mark", ScanStep(normalized, i, tsheg, result, last_was_syllable))
ScanVowel ==
  /\ pc = "scan"
  /\ Scan("vowel", ScanStep(normalized, i, tsheg, result, last_was_syllable))
ScanSyllable ==
  /\ pc = "scan"
  /\ Scan("syllable", ScanStep(normalized, i, tsheg, result, last_was_syllable))
ScanPassthrough ==
  /\ pc = "scan"
  /\ Scan("passthrough", ScanStep(normalized, i, tsheg, result, last_was_syllable))

\* transliterate: the loop ends and ''.join(result) is returned
ScanEnd ==
  /\ pc = "scan" /\ i >= Len(normalized)
  /\ tibetan' = Join(result)
  /\ pc' = "forward_done"
  /\ UNCHANGED <<mode, wylie, tsheg, normalized, i, result, units, last_was_syllable,
                 back, report, mappings>>

\* a reverse call that remembers its answer in the index it reads
UnicodeToWylieCaching ==
  /\ \/ pc = "forward_done"
     \/ pc = "start" /\ mode = "tibetan"
  /\ back' = ReverseFrom(mappings, tibetan, 0)
  /\ mappings' = [mappings EXCEPT !.all_chars = (tibetan :> back') @@ @]
  /\ pc' = IF mode = "wylie" THEN "reversed" ELSE "done"
  /\ UNCHANGED <<mode, wylie, tsheg, tibetan, normalized, i, result, units,
                 last_was_syllable, report>>

\* TibetanToWylieTransliterator.transliterate(tibetan), reading self.mappings
UnicodeToWylie ==
  /\ \/ pc = "forward_done"
     \/ pc = "start" /\ mode = "tibetan"
  /\ back' = ReverseFrom(mappings, tibetan, 0)
  /\ pc' = IF mode = "wylie" THEN "reversed" ELSE "done"
  /\ UNCHANGED <<mode, wylie, tsheg, tibetan, normalized, i, result, units,
                 last_was_syllable, report, mappings>>

\* WylieValidator.validate(wylie)
Validate ==
  /\ pc = "reversed"
  /\ report' = validate(wylie)
  /\ pc' = "done"
  /\ UNCHANGED <<mode, wylie, tsheg, tibetan, normalized, i, result, units,
                 last_was_syllable, back, mappings>>

Next ==
  \/ Normalize
  \/ ScanDigit
  \/ ScanSpace
  \/ ScanPunctuation
  \/ ScanMark
  \/ ScanVowel
  \/ ScanSyllable
  \/ ScanPassthrough
  \/ ScanEnd
  \/ UnicodeToWylie
  \/ Validate

Spec == Init /\ [][Next]_vars

TypeOK ==
  /\ mode \in {"wylie", "tibetan"}
  /\ pc \in {"start", "scan", "forward_done", "reversed", "done"}
  /\ i \in 0..Len(normalized)
  /\ Len(units) = Len(result)
  /\ last_was_syllable \in BOOLEAN
  /\ DOMAIN mappings = DOMAIN ReverseCharacterMappings

----------------------------------------------------------------------------
(* Properties                                                              *)

\* the part of the normalized text that the k-th appended unit consumed
UnitText(k) == Slice(normalized, units[k].start, units[k].start + units[k].length)
HasVowelLetter(text) ==
  \E j \in 0..(Len(text) - 1) : At(text, j) \in {"a", "i", "u", "e", "o"}

\* C1: round trip.  For every valid EWTS text made of syllables separated by
\* spaces, each written with its vowel, unicode_to_wylie(wylie_to_unicode(s))
\* is s again.
C1_RoundTrip ==
  (/\ pc = "done" /\ mode = "wylie" /\ tsheg
   /\ report.is_valid /\ normalized = wylie
   /\ \A k \in 1..Len(units) :
        \/ units[k].kind = "space"
        \/ units[k].kind = "syllable" /\ HasVowelLetter(UnitText(k)))
  => back = wylie

\* what a slot contributes: its entry in the table, nothing when it is empty
Segment(table, slot) == IF slot = "" THEN <<>> ELSE Get(table, slot)
\* the slots of a syllable in the order prescript, superscript, root,
\* subscripts, vowel sign, postscript1, postscript2
InSlotOrder(c) ==
  Segment(CONSONANTS, c.prescript)
  \o Segment(CONSONANTS, c.superscript)
  \o Segment(IF c.superscript # "" THEN SUBJOINED ELSE CONSONANTS, c.root)
  \o (IF c.subscript = "" THEN <<>> ELSE JoinSubscripts(SplitPlus(c.subscript)))
  \o (IF c.vowel = "a" THEN <<>> ELSE Segment(VOWELS, c.vowel))
  \o Segment(CONSONANTS, c.postscript1)
  \o Segment(CONSONANTS, c.postscript2)
Bsgrubs == <<\h0F56, \h0F66, \h0F92, \h0FB2, \h0F74, \h0F56, \h0F66>>

\* C2: every syllable the forward scan appends (the last unit, right after
\* the scan step that appended it) is the code points of its
\* parsed slots in the order prescript (base), superscript (base), root
\* (subjoined under a superscript, base otherwise), subscripts, vowel sign
\* (none for 'a'), postscript1 (base), postscript2 (base); 'bsgrubs' is base
\* b, base s, subjoined g, subjoined r, vowel sign u, base b, base s.
C2_BuilderOrder ==
  /\ (pc = "scan" /\ units # <<>> /\ units[Len(units)].kind = "syllable")
     => result[Len(units)]
          = InSlotOrder(parse_syllable(From(normalized, units[Len(units)].start)).components)
  /\ (pc = "forward_done" /\ wylie = "bsgrubs") => tibetan = Bsgrubs
\* 'bsgrubs' has been rendered as one syllable with all seven code points
C2_Bsgrubs ==
  /\ pc = "forward_done" /\ wylie = "bsgrubs"
  /\ Len(units) = 1 /\ units[1].kind = "syllable" /\ units[1].length = 7
  /\ tibetan = Bsgrubs

\* C3: 'dme' and 'd+me' render differently: 'dme' is base d, then base m
\* with vowel sign e; only 'd+me' is d with a subjoined m.
C3_PlusMakesTheStack ==
  (pc = "forward_done" /\ wylie = "dme")
  => /\ tibetan # wylie_to_unicode("d+me", tsheg)
     /\ tibetan = <<\h0F51, \h0F58, \h0F7A>>

\* C4: the anusvara M is rendered U+0F83 when the unit rendered just before
\* it contains the vowel sign u (alone or in the long U), and U+0F7E
\* otherwise; so 'hUM' ends U+0F71 U+0F74 U+0F83.
C4_AnusvaraAfterU ==
  \A k \in 1..Len(units) :
    (units[k].kind = "mark" /\ UnitText(k) = "M")
    => result[k] = IF k > 1 /\ \E j \in 1..Len(result[k - 1]) : result[k - 1][j] = \h0F74
                   THEN <<ANUSVARA_AFTER_U>> ELSE <<\h0F7E>>

\* C5: validator soundness.  A text that the forward scan renders as one
\* syllable match is valid.
C5_ValidatorSoundness ==
  (/\ pc = "done" /\ mode = "wylie" /\ normalized = wylie
   /\ Len(units) = 1 /\ units[1].kind = "syllable" /\ units[1].length = Len(wylie))
  => report.is_valid

\* the offset of the t-th token
TokenStart(tokens, t) == SumLen(SubSeq(tokens, 1, t - 1))
HoldsUnknown(token) == \E j \in 0..(Len(token) - 1) : At(token, j) \notin valid_chars
FoundAt(found, position) == SelectSeq(found, LAMBDA e : e.position = position)
OnlyUnknownCharacter(tokens, t, position) ==
  HoldsUnknown(tokens[t])
  => /\ ~report.is_valid
     /\ FoundAt(report.errors, position)
          = <<ValidationError(ValidationErrorType.UNKNOWN_CHARACTER, position, tokens[t])>>
     /\ FoundAt(report.warnings, position) = <<>>
UnknownCharacterRule(tokens) ==
  \A t \in 1..Len(tokens) : OnlyUnknownCharacter(tokens, t, TokenStart(tokens, t))

\* C6: a text with a character outside the valid-character set is invalid;
\* the token holding the character contributes exactly one error, an
\* UNKNOWN_CHARACTER at the token, and no finding of a structural check.
C6_UnknownCharacter ==
  (pc = "done" /\ mode = "wylie") => UnknownCharacterRule(_tokenize(wylie))
\* 'gk@ rka': the first token holds '@' and would also fail the prescript check
C6_UnknownOnly ==
  /\ pc = "done" /\ wylie = "gk@ rka"
  /\ ~report.is_valid
  /\ report.errors = <<ValidationError(ValidationErrorType.UNKNOWN_CHARACTER, 0, "gk@")>>

\* the text is a prescript, a root outside the prescript's allowed roots and
\* a vowel
PrescriptWithWrongRoot(text) ==
  \E pre \in SetOfKeys(VALID_PRESCRIPT_COMBINATIONS), root \in SetOfKeys(CONSONANTS), vowel \in SetOfKeys(VOWELS) :
    /\ text = pre \o root \o vowel
    /\ root \notin RootsOf(VALID_PRESCRIPT_COMBINATIONS, pre)
HasInvalidPrescript ==
  /\ ~report.is_valid
  /\ \E k \in 1..Len(report.errors) :
       report.errors[k].error_type = ValidationErrorType.INVALID_PRESCRIPT
\* a reading of the token without a prescript, from its first letter as the
\* root, that consumes the token: all of it, or all but a final 'a' (the
\* vowel left implicit)
ReadWithoutPrescript(text, parse) ==
  /\ parse.ok
  /\ \/ parse.length = Len(text)
     \/ parse.length = Len(text) - 1 /\ At(text, Len(text) - 1) = "a"

\* C7 as stated, for every token: a prescript, a root outside the prescript's
\* allowed roots and a vowel give an invalid result with an INVALID_PRESCRIPT
\* error.  Tokens such as 'bya' (root b with the subscript y) fail it too,
\* through a reading that consumes them.
C7_EveryWrongRoot ==
  (pc = "done" /\ mode = "wylie" /\ PrescriptWithWrongRoot(wylie))
  => HasInvalidPrescript
\* C7: a token of a prescript, a root outside the prescript's allowed roots
\* and a vowel is invalid with an INVALID_PRESCRIPT error.  Stated of the
\* tokens that no reading without a prescript consumes, where the prescript
\* reading is the only one of the whole token ('gka', 'mpa', 'gdu').
C7_InvalidPrescript ==
  (/\ pc = "done" /\ mode = "wylie" /\ PrescriptWithWrongRoot(wylie)
   /\ ~ReadWithoutPrescript(wylie, _parse_simple(wylie))
   /\ ~ReadWithoutPrescript(wylie, _parse_with_subscript(wylie)))
  => HasInvalidPrescript
\* 'gka' has been validated: k is no root for the prescript g
C7_Gka ==
  /\ pc = "done" /\ wylie = "gka" /\ PrescriptWithWrongRoot(wylie)
  /\ ~ReadWithoutPrescript(wylie, _parse_simple(wylie))
  /\ ~ReadWithoutPrescript(wylie, _parse_with_subscript(wylie))
  /\ HasInvalidPrescript
\* 'gdu' has been validated: d is no root for the prescript g, the only
\* reading without a prescript (g with the postscript d) leaves the 'u', and
\* the result is valid
C7_GduAccepted ==
  /\ pc = "done" /\ wylie = "gdu" /\ PrescriptWithWrongRoot(wylie)
  /\ _parse_simple(wylie).ok /\ _parse_simple(wylie).length = 2
  /\ ~ReadWithoutPrescript(wylie, _parse_simple(wylie))
  /\ ~ReadWithoutPrescript(wylie, _parse_with_subscript(wylie))
  /\ report.is_valid /\ report.errors = <<>>

\* C8: normalize is idempotent: normalizing normalized text changes nothing.
C8_NormalizeIdempotent ==
  (pc = "scan" /\ i = 0) => normalize(normalized) = normalized

AllUpper(text) == text # "" /\ \A j \in 0..(Len(text) - 1) : IsUpper(At(text, j))
\* C9: a syllable spelled entirely in uppercase letters is rendered as its
\* lowercase spelling is; 'KHA' is normalized to 'kha'.
C9_UppercaseAsLowercase ==
  /\ (pc = "forward_done" /\ AllUpper(wylie)
      /\ _match_syllable(Lower(wylie)).len = Len(wylie))
     => tibetan = wylie_to_unicode(Lower(wylie), tsheg)
  /\ (pc = "scan" /\ wylie = "KHA") => normalized = "kha"

\* a vowel sign: a code point of the vowel table
IsVowelSign(cp) ==
  \E k \in 1..Len(VOWELS) : \E j \in 1..Len(VOWELS[k][2]) : VOWELS[k][2][j] = cp
NoVowelSign(text, n) == \A j \in 1..n : ~IsVowelSign(text[j])
\* the EWTS text the rendering rule gives the decoded slots d of text
ByRenderingRule(d, text) ==
  IF /\ d.root = "a" /\ d.vowel # ""
     /\ d.prescript = "" /\ d.superscript = "" /\ d.subscripts = <<>>
  THEN d.vowel \o Concat(d.postscripts) \o Concat(d.marks)
  ELSE d.prescript \o d.superscript \o d.root \o Concat(d.subscripts)
       \o (IF NoVowelSign(text, d.pos) /\ d.root # "a" THEN "a" ELSE "")
       \o d.vowel \o Concat(d.postscripts) \o Concat(d.marks)
WholeSyllable(text, step) == step.kind = "syllable" /\ step.len = Len(text)

\* C10: a Unicode text decoded as one syllable is rendered with the inherent
\* 'a' after root and subscripts exactly when it holds no vowel sign and its
\* root is not the vowel placeholder; the placeholder with an explicit vowel
\* and no prescript, superscript or subscript is rendered as the vowel alone.
C10_ReverseRendering ==
  (/\ pc = "done" /\ mode = "tibetan" /\ tibetan # <<>>
   /\ WholeSyllable(tibetan, ReverseStep(ReverseCharacterMappings, tibetan, 0)))
  => back = ByRenderingRule(Decode(ReverseCharacterMappings, tibetan), tibetan)

\* C11: an apostrophe directly followed by a vowel is not taken as a
\* postscript: for every consonant C and vowel v of i, u, e, o the text
\* C a ' v is rendered base C, base apostrophe letter, vowel sign of v.
C11_ApostropheBeforeVowel ==
  pc = "forward_done"
  => \A k \in 1..Len(CONSONANTS) : \A vowel \in {"i", "u", "e", "o"} :
       wylie = StripA(CONSONANTS[k][1]) \o "a'" \o vowel
       => tibetan = CONSONANTS[k][2] \o Get(CONSONANTS, "'") \o Get(VOWELS, vowel)
\* "ba'i" has been rendered as the two syllables ba and 'i
C11_Bai ==
  /\ pc = "forward_done" /\ wylie = "ba'i"
  /\ Len(units) = 2 /\ units[1].length = 2 /\ units[2].kind = "syllable"
  /\ tibetan = <<\h0F56, \h0F60, \h0F72>>

\* every unit of the reverse scan that copies an unrecognized code point
\* copies exactly that one code point
ReverseCopies(text, runits) ==
  \A k \in 1..Len(runits) :
    runits[k].kind = "passthrough"
    => runits[k].length = 1 /\ runits[k].out = CharOf(text[runits[k].start + 1])

\* C12: the scans always go on: at every position of the forward scan one
\* branch applies and consumes at least one character; a character that no
\* rule recognizes is copied unchanged, alone, in both directions, and what
\* stands before and after it is still transliterated ('ka@#$ba' gives ka,
\* '@', '#', '$', ba and comes back as 'ka@#$ba').
C12_NeverFails ==
  /\ (pc = "scan" /\ i < Len(normalized))
     => ScanStep(normalized, i, tsheg, result, last_was_syllable).len >= 1
  /\ (pc = "scan" /\ units # <<>> /\ units[Len(units)].kind = "passthrough")
     => /\ units[Len(units)].length = 1
        /\ result[Len(units)] = <<OrdOf[At(normalized, units[Len(units)].start)]>>
  /\ (pc = "forward_done" /\ wylie = "ka@#$ba")
     => tibetan = <<\h0F40, 64, 35, 36, \h0F56>>
  /\ (pc = "done" \/ pc = "reversed")
     => /\ ReverseCopies(tibetan, ReverseUnits(ReverseCharacterMappings, tibetan, 0))
        /\ (wylie = "ka@#$ba" => back = "ka@#$ba")
\* 'ka@#$ba' has gone through both scans, with three copied characters
C12_KaBa ==
  /\ pc = "done" /\ wylie = "ka@#$ba"
  /\ Len(units) = 5 /\ \A k \in 2..4 : units[k].kind = "passthrough"
  /\ tibetan = <<\h0F40, 64, 35, 36, \h0F56>>
  /\ back = "ka@#$ba"

\* the EWTS spellings that the forward tables map to a Unicode value
SpellingsOf(value) ==
  UNION {{t[k][1] : k \in {j \in 1..Len(t) : t[j][2] = value}} :
           t \in {CONSONANTS, VOWELS, SUBSCRIPTS, SUBJOINED, PUNCTUATION, NUMERALS,
                  SANSKRIT_MARKS, SANSKRIT_RETROFLEX}}
ShortestOf(spellings, w) == w \in spellings /\ \A other \in spellings : Len(w) <= Len(other)

\* C13: a Unicode value that more than one spelling of the forward tables
\* produces is mapped by the reverse index to a shortest of those spellings.
C13_ShortestSpelling ==
  (pc = "done" /\ mode = "tibetan" /\ Cardinality(SpellingsOf(tibetan)) > 1)
  => ShortestOf(SpellingsOf(tibetan), get_wylie(ReverseCharacterMappings, tibetan))

\* C14: the result of validate is valid exactly when it has no errors,
\* whatever its warnings are.
C14_ValidIffNoErrors ==
  pc = "done" => (report.is_valid <=> report.errors = <<>>)
\* a text has been validated with a warning and no error
C14_WarningOnly ==
  /\ pc = "done" /\ mode = "wylie"
  /\ report.warnings # <<>> /\ report.errors = <<>> /\ report.is_valid

\* C15: no call changes the tables a later call reads: the reverse index
\* is in every state the one the constructor built, and after the three
\* calls of a run each result is the pure function of that call's own
\* arguments, whatever was called before it
C15_CallsArePure ==
  /\ mappings = ReverseCharacterMappings
  /\ pc = "done" /\ mode = "wylie" =>
       /\ tibetan = wylie_to_unicode(wylie, tsheg)
       /\ back = unicode_to_wylie(tibetan)
       /\ report = validate(wylie)
  /\ pc = "done" /\ mode = "tibetan" => back = unicode_to_wylie(tibetan)

\* the three calls were made in a row on 'bsgrubs' and each left its result
C15_ThreeCalls ==
  /\ pc = "done" /\ wylie = "bsgrubs"
  /\ tibetan = wylie_to_unicode("bsgrubs", TRUE)
  /\ back = unicode_to_wylie(tibetan) /\ back # ""
  /\ report = validate("bsgrubs")
  /\ mappings = ReverseCharacterMappings

\* C16: an explicit stack 'k+' c 'a', c any key of the subjoined table, is
\* read as one syllable with the subscript c and rendered as the base k
\* followed by the subjoined form of c; no matched subscript is dropped.
C16_ExplicitStack ==
  pc = "forward_done" =>
    \A k \in 1..Len(SUBJOINED) :
      wylie = "k+" \o SUBJOINED[k][1] \o "a"
      => /\ parse_syllable(wylie).components.subscript = SUBJOINED[k][1]
         /\ tibetan = <<\h0F40>> \o SUBJOINED[k][2]

\* C17: the forward parser never returns components whose superscript and
\* root are not a pair of the superscript rule table: every syllable the
\* scan has just emitted was parsed with no superscript or with a root
\* that the table allows under that superscript.
Compatible(c) ==
  c.superscript # "" => c.root \in RootsOf(VALID_SUPERSCRIPT_COMBINATIONS, c.superscript)
C17_SuperscriptCompatible ==
  (pc = "scan" /\ units # <<>> /\ units[Len(units)].kind = "syllable")
  => Compatible(parse_syllable(From(normalized, units[Len(units)].start)).components)

\* C18: parse_syllable returns the result of the strategy that consumed the
\* most characters among simple, with_super, with_pre and full, the first
\* tried among those that consumed as many; it returns nothing exactly
\* when no strategy succeeds.  Checked on every text the scan has just
\* handed to the parser (a syllable or a passthrough unit).
Tries(text) == [n \in 1..Len(STRATEGIES) |-> _try_strategy(text, STRATEGIES[n])]
Succeeded(tries) == {n \in DOMAIN tries : tries[n].ok}
LongestFirst(tries, n) ==
  /\ tries[n].ok
  /\ \A m \in Succeeded(tries) :
       /\ tries[m].length <= tries[n].length
       /\ m < n => tries[m].length < tries[n].length
LongestFirstWins(tries, parse) ==
  /\ parse.ok <=> Succeeded(tries) # {}
  /\ ~parse.ok => parse = NoParse
  /\ parse.ok => \E n \in DOMAIN tries : LongestFirst(tries, n) /\ parse = tries[n]
ParsedText == From(normalized, units[Len(units)].start)
C18_LongestFirstWins ==
  (pc = "scan" /\ units # <<>> /\ units[Len(units)].kind \in {"syllable", "passthrough"})
  => LongestFirstWins(Tries(ParsedText), parse_syllable(ParsedText))

\* 'gra' was parsed: simple (root g, subscript r) and with_pre (prescript g,
\* root r) both consume 3 characters, and the simple reading was returned
C18_Gra ==
  /\ pc = "forward_done" /\ wylie = "gra"
  /\ units = <<[kind |-> "syllable", start |-> 0, length |-> 3]>>
  /\ _try_strategy("gra", "simple").length = 3
  /\ _try_strategy("gra", "with_pre").length = 3
  /\ _try_strategy("gra", "with_pre").components.prescript = "g"
  /\ parse_syllable("gra") = _try_strategy("gra", "simple")
  /\ tibetan = <<\h0F42, \h0FB2>>

\* C19: a syllable step advances the scan position by exactly the number
\* of characters the parser consumed for the syllable it emitted.
C19_AdvanceIsConsumed ==
  (pc = "scan" /\ units # <<>> /\ units[Len(units)].kind = "syllable")
  => /\ units[Len(units)].length = parse_syllable(ParsedText).length
     /\ i = units[Len(units)].start + parse_syllable(ParsedText).length

\* C20: when no consonant root matches where the parser stands but a
\* vowel other than 'a' does, the parsed syllable has the root 'a' (the
\* pure-vowel letter), that vowel, no prescript, superscript or subscript,
\* and the postscripts that follow the vowel; 'om' is parsed so and is
\* rendered U+0F68 (vowel carrier), U+0F7C (vowel sign o), U+0F58 (base m).
PostscriptsAfter(rest, post1) ==
  <<post1, IF post1 = "" THEN "" ELSE _match_postscript(From(rest, Len(post1)))>>
VowelInitial(text, vowel, parse) ==
  (_match_root(text).root = "" /\ vowel # "" /\ vowel # "a")
  => /\ parse.ok
     /\ parse.components.root = "a"
     /\ parse.components.vowel = vowel
     /\ parse.components.prescript = ""
     /\ parse.components.superscript = ""
     /\ parse.components.subscript = ""
     /\ <<parse.components.postscript1, parse.components.postscript2>>
          = PostscriptsAfter(From(text, Len(vowel)), _match_postscript(From(text, Len(vowel))))
C20_VowelInitial ==
  /\ (pc = "scan" /\ units # <<>> /\ units[Len(units)].kind \in {"syllable", "passthrough"})
     => VowelInitial(ParsedText, _match_vowel(ParsedText), parse_syllable(ParsedText))
  /\ (pc = "forward_done" /\ wylie = "om")
     => /\ parse_syllable(normalized).components = SyllableComponents("a", "", "", "", "o", "m", "")
        /\ tibetan = <<\h0F68, \h0F7C, \h0F58>>

\* in 'kaom' the scan reached 'om' after a syllable and emitted it as one
\* syllable: vowel carrier, vowel sign o, base m
C20_Om ==
  /\ pc = "forward_done" /\ wylie = "kaom"
  /\ Len(units) = 2
  /\ units[2] = [kind |-> "syllable", start |-> 2, length |-> 2]
  /\ _match_root("om").root = ""
  /\ result[2] = <<\h0F68, \h0F7C, \h0F58>>

\* C21: at every position the forward scan takes the first decision that
\* applies, in the order digit, space, punctuation, Sanskrit mark,
\* standalone vowel, syllable, passthrough; the standalone vowel is tried
\* only when the unit emitted before was neither a syllable nor a
\* standalone vowel; and last_was_syllable is true exactly when the unit
\* emitted last was a syllable or a standalone vowel.
Decision(text, after_syllable) ==
  IF IsDigit(At(text, 0)) THEN "digit"
  ELSE IF At(text, 0) = " " THEN "space"
  ELSE IF _match_punctuation(text).len > 0 THEN "punctuation"
  ELSE IF _match_sanskrit_mark(text, <<>>).len > 0 THEN "mark"
  ELSE IF ~after_syllable /\ _match_standalone_vowel(text).len > 0 THEN "vowel"
  ELSE IF _match_syllable(text).out # <<>> THEN "syllable"
  ELSE "passthrough"
EmittedSyllable(k) == k >= 1 /\ units[k].kind \in {"syllable", "vowel"}
C21_ScanOrder ==
  pc = "scan" =>
    /\ last_was_syllable = EmittedSyllable(Len(units))
    /\ units # <<>> =>
         units[Len(units)].kind = Decision(ParsedText, EmittedSyllable(Len(units) - 1))

\* in 'kii' the second 'i' stands alone at the end of the text, but it
\* follows the syllable 'ki', so it was emitted by the syllable decision
C21_Kii ==
  /\ pc = "forward_done" /\ wylie = "kii"
  /\ _match_standalone_vowel("i").len = 1
  /\ Len(units) = 2 /\ units[1].kind = "syllable" /\ units[2].kind = "syllable"
  /\ units[2].start = 2
  /\ last_was_syllable

\* C22: every SyllableComponents the forward parser returns has a root, a
\* prescript that is absent or one of g, d, b, m, ', a superscript that is
\* absent or one of r, l, s, a subscript that is absent or one or two
\* letters of r, l, y, w, m, and a postscript2 only with a postscript1.
SubscriptLetters == {"r", "l", "y", "w", "m"}
WellFormed(c) ==
  /\ c.root # ""
  /\ c.prescript \in {""} \cup {"g", "d", "b", "m", "'"}
  /\ c.superscript \in {""} \cup {"r", "l", "s"}
  /\ c.subscript # "" =>
       /\ Len(SplitPlus(c.subscript)) \in {1, 2}
       /\ \A k \in 1..Len(SplitPlus(c.subscript)) : SplitPlus(c.subscript)[k] \in SubscriptLetters
  /\ c.postscript2 # "" => c.postscript1 # ""
C22_WellFormedComponents ==
  (pc = "scan" /\ units # <<>> /\ units[Len(units)].kind = "syllable")
  => WellFormed(parse_syllable(ParsedText).components)

\* C23: in the reverse scan a base consonant of the prescript set that
\* begins a syllable is decoded as the prescript only if the next code
\* point is a base consonant outside the subjoined block, and the base
\* consonant of the superscript set that comes next is decoded as the
\* superscript only if the code point after it lies in the subjoined
\* block; in every other case that consonant is decoded as the root.
IsBase(text, p) ==
  p < Len(text) /\ \E k \in 1..Len(CONSONANTS) : CONSONANTS[k][2] = <<text[p + 1]>>
LetterAt(text, p) == StripA(get_wylie(ReverseCharacterMappings, UAt(text, p)))
PrescriptRule(text, d) ==
  (IsBase(text, 0) /\ LetterAt(text, 0) \in {"g", "d", "b", "m", "'"})
  => IF IsBase(text, 1) /\ ~InSubjoinedBlock(text, 1)
     THEN d.prescript = LetterAt(text, 0)
     ELSE d.prescript = "" /\ d.root = LetterAt(text, 0)
SuperscriptRule(text, d, p) ==
  (IsBase(text, p) /\ LetterAt(text, p) \in {"r", "l", "s"})
  => IF InSubjoinedBlock(text, p + 1)
     THEN d.root # "" => d.superscript = LetterAt(text, p)
     ELSE d.superscript = "" /\ d.root = LetterAt(text, p)
DecodedByRule(text, d) ==
  /\ d.prescript # "" => IsBase(text, 0) /\ IsBase(text, 1) /\ ~InSubjoinedBlock(text, 1)
  /\ d.superscript # "" => IsBase(text, Len(d.prescript)) /\ InSubjoinedBlock(text, Len(d.prescript) + 1)
  /\ PrescriptRule(text, d)
  /\ SuperscriptRule(text, d, IF d.prescript = "" THEN 0 ELSE 1)
ReverseSyllables(text, runits) ==
  \A k \in 1..Len(runits) :
    runits[k].kind = "syllable"
    => DecodedByRule(UFrom(text, runits[k].start), Decode(mappings, UFrom(text, runits[k].start)))
C23_PrescriptSuperscriptLookahead ==
  (pc = "reversed" \/ (pc = "done" /\ mode = "tibetan"))
  => ReverseSyllables(tibetan, ReverseUnits(mappings, tibetan, 0))

\* the Unicode text of 'bsgrubs' was decoded: b before the base s is the
\* prescript, s before the subjoined g is the superscript, g is the root
C23_BsgrubsDecoded ==
  /\ pc = "reversed" /\ tibetan = Bsgrubs
  /\ Decode(mappings, tibetan).prescript = "b"
  /\ Decode(mappings, tibetan).superscript = "s"
  /\ Decode(mappings, tibetan).root = "g"
  /\ back = "bsgrubs"

\* C24: among the results of the validator's strategies for a token the
\* chosen parse is a complete one without errors if there is one; else a
\* complete one with errors, with the fewest errors and among those the
\* longest; else a partial one without errors; else a partial one with
\* errors; and the errors reported for the token are those of the chosen
\* parse.  Complete is the validator's measure: at most one character of
\* the token is left.
Structural(token) ==
  /\ ~_is_punctuation_only(token) /\ ~HoldsUnknown(token)
  /\ ~_is_numeral(token) /\ ~_is_standalone_vowel(token) /\ ~_is_sanskrit_mark_only(token)
ParseRank(r, token) ==
  IF IsComplete(r, token) THEN (IF r.nerrors = 0 THEN 1 ELSE 2)
  ELSE (IF r.nerrors = 0 THEN 3 ELSE 4)
ChosenByPreference(token, parses, chosen) ==
  /\ chosen.ok <=> parses # <<>>
  /\ chosen.ok =>
       /\ \E k \in 1..Len(parses) : parses[k] = chosen
       /\ \A k \in 1..Len(parses) :
            /\ ParseRank(chosen, token) <= ParseRank(parses[k], token)
            /\ (ParseRank(chosen, token) = 2 /\ ParseRank(parses[k], token) = 2)
               => \/ chosen.nerrors < parses[k].nerrors
                  \/ chosen.nerrors = parses[k].nerrors /\ chosen.length >= parses[k].length
ErrorsOfChosen(token, position, chosen) ==
  chosen.ok => FoundAt(report.errors, position)
                 = _validate_components(chosen.components, token, position).errors
PreferenceOf(token, position, parses, chosen) ==
  ChosenByPreference(token, parses, chosen) /\ ErrorsOfChosen(token, position, chosen)
PreferenceRule(tokens) ==
  \A t \in 1..Len(tokens) :
    Structural(tokens[t])
    => PreferenceOf(tokens[t], TokenStart(tokens, t), StrategyParses(tokens[t]),
                    _parse_syllable_structure(tokens[t]))
C24_ParsePreference ==
  (pc = "done" /\ mode = "wylie") => PreferenceRule(_tokenize(wylie))

\* 'gka' was validated: no complete parse is free of errors, the simple
\* parse 'g' is partial and free of errors, and the complete parse with
\* the prescript error was chosen and reported
C24_GkaChosen ==
  /\ pc = "done" /\ wylie = "gka"
  /\ \E k \in 1..Len(StrategyParses("gka")) : ParseRank(StrategyParses("gka")[k], "gka") = 3
  /\ ParseRank(_parse_syllable_structure("gka"), "gka") = 2
  /\ _parse_syllable_structure("gka").components.prescript = "g"
  /\ report.errors = <<ValidationError(ValidationErrorType.INVALID_PRESCRIPT, 0, "gka")>>

\* C25: the validator accepts a parse as complete only if it consumed every
\* character of the token, or every character but a final 'a' (the vowel
\* left implicit); a parse that leaves any other character is not
\* complete.  Stated of the parse chosen for each token.
ConsumesToken(token, length) ==
  \/ length = Len(token)
  \/ length = Len(token) - 1 /\ At(token, Len(token) - 1) = "a"
AcceptedAsComplete(token, chosen) ==
  (chosen.ok /\ ParseRank(chosen, token) <= 2) => ConsumesToken(token, chosen.length)
CompletenessRule(tokens) ==
  \A t \in 1..Len(tokens) :
    Structural(tokens[t]) => AcceptedAsComplete(tokens[t], _parse_syllable_structure(tokens[t]))
C25_CompleteMeansConsumed ==
  (pc = "done" /\ mode = "wylie") => CompletenessRule(_tokenize(wylie))

HasSubscriptError(found, position) ==
  \E k \in 1..Len(found) :
    /\ found[k].position = position
    /\ found[k].error_type = ValidationErrorType.INVALID_SUBSCRIPT
\* the chosen parse has a subscript under a root that the rule table does
\* not list for it
AbsentCombination(c) ==
  /\ c.subscript # "" /\ c.root # ""
  /\ c.root \notin RootsOf(VALID_SUBSCRIPT_COMBINATIONS, c.subscript)
\* the subscript of the chosen parse has no entry in the rule table at all
UnknownSubscript(c) ==
  /\ c.subscript # "" /\ c.root # ""
  /\ ~HasKey(VALID_SUBSCRIPT_COMBINATIONS, c.subscript)
WarningOnly(token, position, chosen) ==
  /\ ~HasSubscriptError(report.errors, position)
  /\ FoundAt(report.warnings, position)
       = <<ValidationError(ValidationErrorType.AMBIGUOUS_PARSING, position, token)>>
  /\ FoundAt(report.errors, position)
       = _validate_components([chosen.components EXCEPT !.subscript = ""], token, position).errors
AbsentIsWarning(token, position, chosen) ==
  (chosen.ok /\ AbsentCombination(chosen.components)) => WarningOnly(token, position, chosen)
UnknownIsWarning(token, position, chosen) ==
  /\ (chosen.ok /\ UnknownSubscript(chosen.components)) => WarningOnly(token, position, chosen)
  /\ (chosen.ok /\ AbsentCombination(chosen.components) /\ ~UnknownSubscript(chosen.components))
     => HasSubscriptError(report.errors, position) /\ FoundAt(report.warnings, position) = <<>>

\* C26 as stated: a subscript and root combination that is absent from the
\* rule table yields only a warning and never an error.
C26_AbsentIsWarning ==
  (pc = "done" /\ mode = "wylie") =>
    \A t \in 1..Len(_tokenize(wylie)) :
      Structural(_tokenize(wylie)[t])
      => AbsentIsWarning(_tokenize(wylie)[t], TokenStart(_tokenize(wylie), t),
                         _parse_syllable_structure(_tokenize(wylie)[t]))
\* C26: a subscript that has no entry in the subscript rule table yields,
\* with any root, one AMBIGUOUS_PARSING warning and no error, so that it
\* alone never makes is_valid false; a subscript that has an entry, under a
\* root outside the entry, yields an INVALID_SUBSCRIPT error and no warning.
C26_UnknownIsWarning ==
  (pc = "done" /\ mode = "wylie") =>
    \A t \in 1..Len(_tokenize(wylie)) :
      Structural(_tokenize(wylie)[t])
      => UnknownIsWarning(_tokenize(wylie)[t], TokenStart(_tokenize(wylie), t),
                          _parse_syllable_structure(_tokenize(wylie)[t]))
\* 'kva' was validated: the subscript v has no entry, the result carries the
\* warning alone and is valid
C26_Kva ==
  /\ pc = "done" /\ wylie = "kva"
  /\ UnknownSubscript(_parse_syllable_structure("kva").components)
  /\ report = [is_valid |-> TRUE, errors |-> <<>>,
               warnings |-> <<ValidationError(ValidationErrorType.AMBIGUOUS_PARSING, 0, "kva")>>]

\* C27: texts separated by a space are transliterated independently: the
\* result for a, a space, b is the result for a, then the tsheg (the space
\* itself when spaces are kept), then the result for b.  Checked at every
\* space of every text.
Separator(spaces_as_tsheg) == IF spaces_as_tsheg THEN <<TSHEG>> ELSE <<OrdOf[" "]>>
SplitsAt(text, p, spaces_as_tsheg, whole) ==
  At(text, p) = " "
  => whole = wylie_to_unicode(Slice(text, 0, p), spaces_as_tsheg)
             \o Separator(spaces_as_tsheg)
             \o wylie_to_unicode(From(text, p + 1), spaces_as_tsheg)
C27_SpaceSeparates ==
  (pc = "forward_done" /\ HasSpace(wylie))
  => \A p \in 0..(Len(wylie) - 1) : SplitsAt(wylie, p, tsheg, tibetan)

\* 'bla ma' was rendered with the tsheg between the renderings of 'bla' and 'ma'
C27_BlaMa ==
  /\ pc = "forward_done" /\ wylie = "bla ma" /\ tsheg
  /\ wylie_to_unicode("bla", TRUE) = <<\h0F56, \h0FB3>>
  /\ wylie_to_unicode("ma", TRUE) = <<\h0F58>>
  /\ tibetan = <<\h0F56, \h0FB3, \h0F0B, \h0F58>>

\* the program goes on: a call returns or begins (pc changes), or the forward
\* loop passes to a later position of the text
Advance ==
  /\ pc # "done"
  /\ \/ /\ pc' \in {"scan", "forward_done", "reversed", "done"} \ {pc}
        /\ i' = i
     \/ /\ pc' = pc
        /\ i' \in (i + 1)..Len(normalized)

\* a sequential program that is not stopped from outside: as long as the
\* call sequence is not at its end, the program goes on
LiveSpec == Init /\ [][Next]_vars /\ WF_<<pc, i>>(Advance)

\* the iterations of the reverse loop begin at 0, each begins where the one
\* before it ended, each consumes at least one code point, and the last one
\* ends at the end of the text
ReverseAdvances(text, runits) ==
  /\ \A k \in 1..Len(runits) :
       /\ runits[k].length >= 1
       /\ runits[k].start = IF k = 1 THEN 0
                            ELSE runits[k - 1].start + runits[k - 1].length
  /\ (IF runits = <<>> THEN 0
      ELSE runits[Len(runits)].start + runits[Len(runits)].length) = Len(text)

\* C28: both scans terminate: every iteration of the forward loop moves the
\* position forward by at least one character and never past the end of the
\* text, every iteration of the reverse loop consumes at least one code
\* point and the last one ends at the end of the text, the forward loop
\* is always left, and every call sequence comes to its end.
C28_ScansTerminate ==
  /\ [][(pc = "scan" /\ pc' = "scan") => (i' > i /\ i' <= Len(normalized))]_vars
  /\ [][(pc' # pc /\ (pc' = "reversed" \/ pc' = "done"))
        => ReverseAdvances(tibetan', ReverseUnits(mappings', tibetan', 0))]_vars
  /\ [](pc = "scan" /\ i < Len(normalized)
        => ScanStep(normalized, i, tsheg, result, last_was_syllable).kind
           \in {"digit", "space", "punctuation", "mark", "vowel", "syllable",
                "passthrough"})
  /\ (pc = "scan") ~> (pc = "forward_done" /\ i = Len(normalized))
  /\ <>(pc = "done")
\* 'sangs rgyas' has been scanned in three iterations and its result of ten
\* code points has been scanned back
C28_SangsRgyas ==
  /\ pc = "done" /\ wylie = "sangs rgyas"
  /\ Len(units) = 3 /\ i = Len(normalized)
  /\ Len(tibetan) = 8
  /\ Len(ReverseUnits(mappings, tibetan, 0)) >= 3

\* the finding e stands at the first character of a token that is not a
\* separator, and names that token
AtTokenStart(text, tokens, e) ==
  \E t \in 1..Len(tokens) :
    /\ ~_is_punctuation_only(tokens[t])
    /\ e.position = TokenStart(tokens, t)
    /\ e.syllable = tokens[t]
    /\ Slice(text, e.position, e.position + Len(tokens[t])) = tokens[t]

\* the tokens, one after the other, are the text: none is empty, a
\* separator is a token of its own, and the findings stand at token starts,
\* in the order of the text
Covers(text, tokens, found) ==
  /\ Concat(tokens) = text
  /\ \A t \in 1..Len(tokens) :
       /\ tokens[t] # ""
       /\ (\E j \in 0..(Len(tokens[t]) - 1) :
             At(tokens[t], j) \in {" ", "\t", "\n", "/", "|"})
          => Len(tokens[t]) = 1
  /\ \A k \in 1..Len(found.errors) : AtTokenStart(text, tokens, found.errors[k])
  /\ \A k \in 1..(Len(found.errors) - 1) :
       found.errors[k].position <= found.errors[k + 1].position

\* C29: the validator's tokens, syllables and separators together, cover the
\* text exactly, in order and without overlap, and every error carries the
\* 0-based offset of the first character of the token that produced it.
C29_TokensCoverText ==
  (pc = "done" /\ mode = "wylie")
  => Covers(wylie, _tokenize(wylie), report)
\* 'a @': three tokens, and the error of the third stands at offset 2
C29_SecondToken ==
  /\ pc = "done" /\ wylie = "a @"
  /\ _tokenize(wylie) = <<"a", " ", "@">>
  /\ Len(report.errors) = 1
  /\ report.errors[1].error_type = ValidationErrorType.UNKNOWN_CHARACTER
  /\ report.errors[1].position = 2

\* the postscripts of a parse are taken from the valid sets
ValidPostscripts(c) ==
  /\ c.postscript1 # "" => \E k \in 1..Len(VALID_POSTSCRIPTS) :
                             VALID_POSTSCRIPTS[k] = c.postscript1
  /\ c.postscript2 # "" => /\ c.postscript1 # ""
                           /\ \E k \in 1..Len(VALID_SECOND_POSTSCRIPTS) :
                                VALID_SECOND_POSTSCRIPTS[k] = c.postscript2
\* every parse that a strategy returns for a token has valid postscripts
StrategiesTakeValidPostscripts(tokens) ==
  \A t \in 1..Len(tokens) :
    Structural(tokens[t])
    => \A r \in {_parse_simple(tokens[t]), _parse_with_subscript(tokens[t]),
                 _parse_with_superscript(tokens[t]), _parse_with_prescript(tokens[t]),
                 _parse_full(tokens[t])} :
         r.ok => ValidPostscripts(r.components)
NoPostscriptFinding(found) ==
  /\ \A k \in 1..Len(found.errors) :
       found.errors[k].error_type # ValidationErrorType.INVALID_POSTSCRIPT
  /\ \A k \in 1..Len(found.warnings) :
       found.warnings[k].error_type # ValidationErrorType.INVALID_POSTSCRIPT

\* C30: validate never reports INVALID_POSTSCRIPT: every parse strategy
\* takes its postscripts from the valid sets, so the postscript checks of
\* the component validation cannot fail.
C30_NoInvalidPostscript ==
  (pc = "done" /\ mode = "wylie")
  => /\ NoPostscriptFinding(report)
     /\ StrategiesTakeValidPostscripts(_tokenize(wylie))
\* 'sangs rgyas' was validated without a finding, 'sangs' with both
\* postscripts, 'ng' and 's'
C30_Sangs ==
  /\ pc = "done" /\ wylie = "sangs rgyas"
  /\ _tokenize(wylie)[1] = "sangs"
  /\ _parse_syllable_structure("sangs").ok
  /\ _parse_syllable_structure("sangs").components.postscript1 = "ng"
  /\ _parse_syllable_structure("sangs").components.postscript2 = "s"
  /\ report.is_valid /\ report.warnings = <<>>

====
